---------------------------- MODULE Spec2Model ----------------------------
(***************************************************************************)
(* A model of the simulation core of stevenharderjr/asteroids-clone:       *)
(* src/lib/gameLogic.ts, src/lib/constants.ts and the update() loop of     *)
(* src/components/GameCanvas.svelte.                                       *)
(*                                                                         *)
(* Number representation.  The program computes in IEEE doubles; the model *)
(* computes on an integer grid:                                            *)
(*   - lengths, positions and speeds are whole pixels (per tick);          *)
(*   - areas are in units of pi, so the area of a disc of radius r is r*r  *)
(*     and smallestFragmentArea = Math.PI*12*12 is 144;                    *)
(*   - angles are whole degrees; Cos and Sin resolve an angle to the       *)
(*     nearest axis, Atan2 answers the nearest axis of a vector;           *)
(*   - times are whole milliseconds;                                       *)
(*   - Math.random() is a tape of values num/RandDen, 0 <= num < RandDen,  *)
(*     read cyclically: the k-th draw of a call reads tape[k mod TapeLen]. *)
(* A real product is brought to the grid by Floor or Round as the code     *)
(* does where it rounds, and by Round (nearest) where it does not.         *)
(***************************************************************************)
EXTENDS Integers, Sequences, FiniteSets, TLC

VARIABLES
    ship,          \* GameCanvas.svelte: let ship
    keys,          \* GameCanvas.svelte: let keys (the set of keys held down)
    asteroids,     \* GameCanvas.svelte: let asteroids
    bullets,       \* GameCanvas.svelte: let bullets
    sparks,        \* GameCanvas.svelte: let sparks
    snippets,      \* GameCanvas.svelte: let snippets
    score,         \* GameCanvas.svelte: let score
    lastShotTime,  \* GameCanvas.svelte: let lastShotTime
    gameOn,        \* GameCanvas.svelte: let gameOn
    paused,        \* GameCanvas.svelte: let paused
    currentLevel,  \* gameLogic: the currentLevel store
    now,           \* Date.now()
    timers,        \* pending setTimeout callbacks (their due times)
    ticks,         \* number of update steps taken so far
    call,          \* the arguments of the function under test (pure-function specifications)
    ret,           \* its result
    passLog,       \* the hits of the latest collision pass, in the order they happened
    events,        \* number of key presses, key releases and stalls so far
    gravity,       \* gameLogic: the time of the last gravity pulse; what the latest
                   \* applyGravitySpike call did to each asteroid it processed; the times
                   \* of the pulses so far
    examined       \* the bullets the latest collision pass has looked at (const bullet =
                   \* bullets[i]), in the order it did

vars == <<ship, keys, asteroids, bullets, sparks, snippets, score, lastShotTime,
          gameOn, paused, currentLevel, now, timers, ticks, call, ret, passLog, events,
          gravity, examined>>

---------------------------------------------------------------------------
(* Bounds of the model *)

\* Math.random() yields num/RandDen for num in 0..RandDen-1
RandDen == 4
\* length of the cyclic tape of random values one call reads
TapeLen == 2

---------------------------------------------------------------------------
(* constants.ts *)

width == 800
height == 600
SNIPE_TIME_THRESHOLD == 1000
\* MIN_SNIPE_DISTANCE = 0.25, kept as its reciprocal
MIN_SNIPE_DISTANCE_INV == 4
sparkLifetime == 50
outerMargin == 50
shootCooldown == 100
bulletSpeed == 7
numAsteroids == 8

(* gameLogic.ts *)

smallestFragmentRadius == 12
\* Math.PI * smallestFragmentRadius * smallestFragmentRadius, in units of pi
smallestFragmentArea == smallestFragmentRadius * smallestFragmentRadius
\* const maxRadius = 70 in spawnAsteroid
maxRadius == 70

---------------------------------------------------------------------------
(* Arithmetic on the grid *)

Max(a, b) == IF a >= b THEN a ELSE b
Min(a, b) == IF a <= b THEN a ELSE b
Abs(a) == IF a >= 0 THEN a ELSE -a

\* Math.floor(p/q), q > 0
Floor(p, q) == p \div q
\* Math.round(p/q), q > 0: the nearest integer, halves upward
Round(p, q) == (2 * p + q) \div (2 * q)

RECURSIVE SqrtSearch(_, _, _)
SqrtSearch(n, lo, hi) ==
    IF lo >= hi THEN lo
    ELSE LET mid == (lo + hi + 1) \div 2
         IN  IF mid * mid <= n THEN SqrtSearch(n, mid, hi)
             ELSE SqrtSearch(n, lo, mid - 1)
\* Math.sqrt(n) brought down to the grid
Sqrt(n) == SqrtSearch(n, 0, Min(n, 46340))

NormDeg(deg) == ((deg % 360) + 360) % 360
Axis(deg) == ((NormDeg(deg) + 45) \div 90) % 4
\* Math.cos, Math.sin of an angle in degrees
Cos(deg) == <<1, 0, -1, 0>>[Axis(deg) + 1]
Sin(deg) == <<0, 1, 0, -1>>[Axis(deg) + 1]
\* Math.atan2(y, x) in degrees, in (-180, 180]
Atan2(y, x) ==
    IF x = 0 /\ y = 0 THEN 0
    ELSE IF Abs(x) >= Abs(y) THEN (IF x > 0 THEN 0 ELSE 180)
    ELSE IF y > 0 THEN 90 ELSE -90

(* Math.random() *)
RandomValues == 0 .. (RandDen - 1)
Tapes == [1 .. TapeLen -> RandomValues]
\* the numerator of the n-th draw (n = 0, 1, ...) of a call
Rand(tape, n) == tape[(n % Len(tape)) + 1]
\* Math.random() * k, brought down to the grid
RandTimes(tape, n, k) == Floor(Rand(tape, n) * k, RandDen)

---------------------------------------------------------------------------
(* gameLogic.ts: fragmentAsteroid *)

\* weights of the velocity components, and the explosion force scale (0.2 and 0.5 in tenths)
w1 == 2
w2 == 1
w3Tenths == 2
explosionForceScaleTenths == 5

\* the jagged outline: Math.floor(8 + Math.random() * 5) vertices, each offset
\* 0.8 + Math.random() * 0.4 (in hundredths), and offsetAngle = Math.random() * PI2
VertexCount(tape, n) == Floor(8 * RandDen + Rand(tape, n) * 5, RandDen)
Offsets(tape, n, vertexCount) ==
    [i \in 1 .. vertexCount |-> 80 + RandTimes(tape, n + i - 1, 40)]
OffsetAngle(tape, n) == RandTimes(tape, n, 360)

\* randomPointInCircle with r = Math.sqrt(Math.random() * 4) * R: a point of the circle
\* of radius 2R
randomPointInWiderCircle(R, tape, n) ==
    LET r == Sqrt(Floor(Rand(tape, n) * 4 * R * R, RandDen))
        theta == RandTimes(tape, n + 1, 360)
    IN  [x |-> r * Cos(theta), y |-> r * Sin(theta)]

\* r = Math.sqrt(Math.random()) * R, theta = Math.random() * PI2 (draws n and n+1)
randomPointInCircle(R, tape, n) ==
    LET r == Sqrt(Floor(Rand(tape, n) * R * R, RandDen))
        theta == RandTimes(tape, n + 1, 360)
    IN  [x |-> r * Cos(theta), y |-> r * Sin(theta)]

\* FragArea with the radius of the smallest fragment where its area belongs
FragAreaFromRadius(tape, n, maxFragArea) ==
    LET a == RandTimes(tape, n, maxFragArea - smallestFragmentArea) + smallestFragmentRadius
    IN  Sqrt(a) * Sqrt(a)

\* fragArea = Math.random() * (maxFragArea - smallestFragmentArea) + smallestFragmentArea,
\* brought down to the grid of areas (the squares): the radius Math.sqrt(fragArea / Math.PI)
\* is then a whole number and the area is the square of the radius
FragArea(tape, n, maxFragArea) ==
    LET a == RandTimes(tape, n, maxFragArea - smallestFragmentArea) + smallestFragmentArea
    IN  Sqrt(a) * Sqrt(a)

\* PlacementUnit with no direction at all for a fragment at the centre
PlacementUnitNone(pos, dist) ==
    IF dist > 0 THEN [x |-> Round(pos.x, dist), y |-> Round(pos.y, dist)]
    ELSE [x |-> 0, y |-> 0]

\* placementUnit = dist > 0 ? { x: pos.x / dist, y: pos.y / dist } : { x: 1, y: 0 }
PlacementUnit(pos, dist) ==
    IF dist > 0 THEN [x |-> Round(pos.x, dist), y |-> Round(pos.y, dist)]
    ELSE [x |-> 1, y |-> 0]

\* one fragment of the carving loop, its draws starting at n
Fragment(bullet, asteroid, tape, n, fragArea) ==
    LET parentV == [x |-> asteroid.speed * Cos(asteroid.angle),
                    y |-> asteroid.speed * Sin(asteroid.angle)]
        bulletV == [x |-> bullet.vx, y |-> bullet.vy]
        fragRadius == Sqrt(fragArea)
        maxPosRadius == Max(0, asteroid.radius - fragRadius)
        pos == randomPointInCircle(maxPosRadius, tape, n + 1)
        dist == Sqrt(pos.x * pos.x + pos.y * pos.y)
        placementUnit == PlacementUnit(pos, dist)
        vPlacement == [x |-> w1 * placementUnit.x, y |-> w1 * placementUnit.y]
        \* in tenths of a pixel
        combinedVx == 10 * vPlacement.x + 10 * w2 * parentV.x + w3Tenths * bulletV.x
        combinedVy == 10 * vPlacement.y + 10 * w2 * parentV.y + w3Tenths * bulletV.y
        \* in hundredths of a pixel
        scaledVx == explosionForceScaleTenths * combinedVx
        scaledVy == explosionForceScaleTenths * combinedVy
        fragAngle == Atan2(scaledVy, scaledVx)
        \* Math.sqrt(...) * (1 + Math.random() * 0.5)
        fragSpeed == Round(Sqrt(scaledVx * scaledVx + scaledVy * scaledVy)
                             * (2 * RandDen + Rand(tape, n + 3)),
                           100 * 2 * RandDen)
        vertexCount == VertexCount(tape, n + 4)
    IN  [x |-> asteroid.x + pos.x,
         y |-> asteroid.y + pos.y,
         angle |-> fragAngle,
         speed |-> fragSpeed,
         radius |-> fragRadius,
         targetRadius |-> fragRadius,
         area |-> fragArea,
         vertexCount |-> vertexCount,
         offsets |-> Offsets(tape, n + 5, vertexCount),
         offsetAngle |-> OffsetAngle(tape, n + 5 + vertexCount)]

\* MaxFragArea with the whole of the area that is left, not half of it
MaxFragAreaWhole(availableArea) == Max(smallestFragmentArea, availableArea)

\* maxFragArea = Math.max(smallestFragmentArea, availableArea * 0.5)
MaxFragArea(availableArea) == Max(smallestFragmentArea, Floor(availableArea, 2))

\* the loop  while (availableArea >= smallestFragmentArea) { ... }
RECURSIVE Carve(_, _, _, _, _, _)
Carve(bullet, asteroid, tape, n, availableArea, fragments) ==
    IF availableArea < smallestFragmentArea THEN fragments
    ELSE LET maxFragArea == MaxFragArea(availableArea)
             fragArea == FragArea(tape, n, maxFragArea)
         IN  IF fragArea > availableArea THEN fragments
             ELSE LET f == Fragment(bullet, asteroid, tape, n, fragArea)
                  IN  Carve(bullet, asteroid, tape, n + 6 + f.vertexCount,
                            availableArea - fragArea, Append(fragments, f))

\* fragmentAsteroid with the early return taken below one smallest fragment, not two
fragmentAsteroidSingle(bullet, asteroid, tape) ==
    IF asteroid.area < smallestFragmentArea THEN << >>
    ELSE Carve(bullet, asteroid, tape, 0, asteroid.area, << >>)

fragmentAsteroid(bullet, asteroid, tape) ==
    IF asteroid.area < 2 * smallestFragmentArea THEN << >>
    ELSE Carve(bullet, asteroid, tape, 0, asteroid.area, << >>)

---------------------------------------------------------------------------
(* gameLogic.ts: spawnAsteroid, spawnExplosion *)

\* spawnAsteroid with the radius r = Math.random() * maxRadius, from 0 upwards
spawnAsteroidFromZero(tape, n) ==
    LET edge == RandTimes(tape, n, 4)
        along == Rand(tape, n + 1)
        x == CASE edge = 0 -> -(width \div 4)
               [] edge = 1 -> width + width \div 4
               [] OTHER -> Floor(along * width, RandDen)
        y == CASE edge = 2 -> -(height \div 4)
               [] edge = 3 -> height + height \div 4
               [] OTHER -> Floor(along * height, RandDen)
        targetX == RandTimes(tape, n + 2, width)
        targetY == RandTimes(tape, n + 3, height)
        angle == Atan2(targetY - y, targetX - x) + RandTimes(tape, n + 4, 30) - 15
        r == RandTimes(tape, n + 5, maxRadius)
        vertexCount == VertexCount(tape, n + 6)
    IN  [x |-> x, y |-> y, angle |-> angle,
         speed |-> 1 + RandTimes(tape, n + 7 + vertexCount, 2),
         radius |-> r, targetRadius |-> r, area |-> r * r,
         vertexCount |-> vertexCount,
         offsets |-> Offsets(tape, n + 7, vertexCount),
         offsetAngle |-> OffsetAngle(tape, n + 8 + vertexCount)]

\* spawnAsteroid(), its draws starting at n: an edge, a point 25% of the field beyond
\* it, an angle towards a random point of the field turned by up to 15 degrees either
\* way, a radius r = Math.random() * (maxRadius - minRadius) + minRadius
spawnAsteroid(tape, n) ==
    LET edge == RandTimes(tape, n, 4)
        along == Rand(tape, n + 1)
        x == CASE edge = 0 -> -(width \div 4)
               [] edge = 1 -> width + width \div 4
               [] OTHER -> Floor(along * width, RandDen)
        y == CASE edge = 2 -> -(height \div 4)
               [] edge = 3 -> height + height \div 4
               [] OTHER -> Floor(along * height, RandDen)
        targetX == RandTimes(tape, n + 2, width)
        targetY == RandTimes(tape, n + 3, height)
        angle == Atan2(targetY - y, targetX - x) + RandTimes(tape, n + 4, 30) - 15
        r == RandTimes(tape, n + 5, maxRadius - smallestFragmentRadius) + smallestFragmentRadius
        vertexCount == VertexCount(tape, n + 6)
    IN  [x |-> x, y |-> y, angle |-> angle,
         speed |-> 1 + RandTimes(tape, n + 7 + vertexCount, 2),
         radius |-> r, targetRadius |-> r, area |-> r * r,
         vertexCount |-> vertexCount,
         offsets |-> Offsets(tape, n + 7, vertexCount),
         offsetAngle |-> OffsetAngle(tape, n + 8 + vertexCount)]

\* Math.pow(num / den, massWeightExponent) with massWeightExponent = 1.5, in thousandths
\* (0 <= num <= den)
PowMassWeight(num, den) == Sqrt(Floor(num * num * num * 1000, den * den * den) * 1000)

sparkCount == 10

RECURSIVE Sparks(_, _, _, _, _)
\* the sparkCount sparks of one explosion: spark i takes draws 2(i-1) and 2(i-1)+1
Sparks(x, y, explosionBaseAngle, tape, i) ==
    IF i > sparkCount THEN << >>
    ELSE LET \* explosionBaseAngle + (Math.random() - 0.5) * spreadRange, spreadRange = 60 degrees
             sparkAngle == explosionBaseAngle + RandTimes(tape, 2 * (i - 1), 60) - 30
             speed == 1 + RandTimes(tape, 2 * (i - 1) + 1, 2)
         IN  <<[x |-> x, y |-> y, vx |-> speed * Cos(sparkAngle),
                vy |-> speed * Sin(sparkAngle), age |-> 0]>>
             \o Sparks(x, y, explosionBaseAngle, tape, i + 1)

\* spawnExplosion with the sparks of the explosion put in place of the caller's
spawnExplosionAlone(x, y, bullet, asteroid, sparkSink, tape) == Sparks(x, y, 0, tape, 1)

\* spawnExplosion(x, y, bullet, asteroid, sparks): the value of sparks after the call
spawnExplosion(x, y, bullet, asteroid, sparkSink, tape) ==
    LET asteroidVx == asteroid.speed * Cos(asteroid.angle)
        asteroidVy == asteroid.speed * Sin(asteroid.angle)
        \* normalizedMass = (targetRadius - 12) / (70 - 12); weight in thousandths
        weight == PowMassWeight(asteroid.targetRadius - smallestFragmentRadius,
                                maxRadius - smallestFragmentRadius)
        explosionVx == (1000 - weight) * bullet.vx + weight * asteroidVx
        explosionVy == (1000 - weight) * bullet.vy + weight * asteroidVy
        explosionBaseAngle == Atan2(explosionVy, explosionVx)
    IN  sparkSink \o Sparks(x, y, explosionBaseAngle, tape, 1)

---------------------------------------------------------------------------
(* gameLogic.ts: the update functions *)

\* WrapAsteroid holding the asteroid at the margin instead of relocating it
WrapAsteroidClamp(a) ==
    LET x1 == a.x + a.speed * Cos(a.angle)
        y1 == a.y + a.speed * Sin(a.angle)
    IN  [a EXCEPT !.x = Max(-outerMargin, Min(width + outerMargin, x1)),
                  !.y = Max(-outerMargin, Min(height + outerMargin, y1))]

\* WrapAsteroid letting an asteroid that is beyond a margin and moving towards the field
\* drift in, relocating only those that move away from it
WrapAsteroidDriftIn(a) ==
    LET vx == a.speed * Cos(a.angle)
        vy == a.speed * Sin(a.angle)
        x1 == a.x + vx
        y1 == a.y + vy
        x2 == IF x1 < -outerMargin /\ vx <= 0 THEN width + outerMargin ELSE x1
        x3 == IF x2 > width + outerMargin /\ vx >= 0 THEN -outerMargin ELSE x2
        y2 == IF y1 < -outerMargin /\ vy <= 0 THEN height + outerMargin ELSE y1
        y3 == IF y2 > height + outerMargin /\ vy >= 0 THEN -outerMargin ELSE y2
    IN  [a EXCEPT !.x = x3, !.y = y3]

\* WrapAsteroid turning the asteroid round at the margin instead of relocating it
WrapAsteroidBounce(a) ==
    LET x1 == a.x + a.speed * Cos(a.angle)
        y1 == a.y + a.speed * Sin(a.angle)
        out == \/ x1 < -outerMargin \/ x1 > width + outerMargin
               \/ y1 < -outerMargin \/ y1 > height + outerMargin
    IN  [a EXCEPT !.x = Max(-outerMargin, Min(width + outerMargin, x1)),
                  !.y = Max(-outerMargin, Min(height + outerMargin, y1)),
                  !.angle = IF out THEN a.angle + 180 ELSE a.angle]

WrapAsteroid(a) ==
    LET x1 == a.x + a.speed * Cos(a.angle)
        y1 == a.y + a.speed * Sin(a.angle)
        x2 == IF x1 < -outerMargin THEN width + outerMargin ELSE x1
        x3 == IF x2 > width + outerMargin THEN -outerMargin ELSE x2
        y2 == IF y1 < -outerMargin THEN height + outerMargin ELSE y1
        y3 == IF y2 > height + outerMargin THEN -outerMargin ELSE y2
    IN  [a EXCEPT !.x = x3, !.y = y3]

updateAsteroids(as) == [i \in 1 .. Len(as) |-> WrapAsteroid(as[i])]

\* MoveBullet with the distance starting again from the step when the position wraps
MoveBulletWrapReset(b) ==
    LET stepDistance == Sqrt(b.vx * b.vx + b.vy * b.vy)
        x1 == b.x + b.vx
        y1 == b.y + b.vy
        wrapped == x1 < 0 \/ x1 > width \/ y1 < 0 \/ y1 > height
        x2 == IF x1 < 0 THEN x1 + width ELSE x1
        x3 == IF x2 > width THEN x2 - width ELSE x2
        y2 == IF y1 < 0 THEN y1 + height ELSE y1
        y3 == IF y2 > height THEN y2 - height ELSE y2
    IN  [b EXCEPT !.distanceTraveled = IF wrapped THEN stepDistance
                                       ELSE b.distanceTraveled + stepDistance,
                  !.x = x3, !.y = y3]
\* MoveBullet wrapping as updateAsteroids does, outerMargin beyond the edges
MoveBulletMargin(b) ==
    LET stepDistance == Sqrt(b.vx * b.vx + b.vy * b.vy)
        x1 == b.x + b.vx
        y1 == b.y + b.vy
        x2 == IF x1 < -outerMargin THEN width + outerMargin ELSE x1
        x3 == IF x2 > width + outerMargin THEN -outerMargin ELSE x2
        y2 == IF y1 < -outerMargin THEN height + outerMargin ELSE y1
        y3 == IF y2 > height + outerMargin THEN -outerMargin ELSE y2
    IN  [b EXCEPT !.distanceTraveled = b.distanceTraveled + stepDistance,
                  !.x = x3, !.y = y3]

\* the body of bullets.forEach in updateBullets
MoveBullet(b) ==
    LET stepDistance == Sqrt(b.vx * b.vx + b.vy * b.vy)
        x1 == b.x + b.vx
        y1 == b.y + b.vy
        x2 == IF x1 < 0 THEN x1 + width ELSE x1
        x3 == IF x2 > width THEN x2 - width ELSE x2
        y2 == IF y1 < 0 THEN y1 + height ELSE y1
        y3 == IF y2 > height THEN y2 - height ELSE y2
    IN  [b EXCEPT !.distanceTraveled = b.distanceTraveled + stepDistance,
                  !.x = x3, !.y = y3]

\* InRange with the comparison strict
InRangeStrict(b) == b.distanceTraveled < b.maxDistance
InRange(b) == b.distanceTraveled <= b.maxDistance

\* updateBullets(bullets): Bullet[] (gameLogic.ts 535-549): the array it returns
updateBullets(bs) == SelectSeq([i \in 1 .. Len(bs) |-> MoveBullet(bs[i])], InRange)

\* updateBullets(bullets): void (gameLogic.ts 192-207): the caller's array after the call.
\* The bullets are moved in place; the filtered array is assigned to the parameter and
\* is lost when the function returns.
updateBulletsVoid(bs) == [i \in 1 .. Len(bs) |-> MoveBullet(bs[i])]

\* Expired with the comparison strict
ExpiredLate(spark) == spark.age > sparkLifetime
Expired(spark) == spark.age >= sparkLifetime
Alive(spark) == ~Expired(spark)
AgeSpark(spark) == [spark EXCEPT !.x = spark.x + spark.vx, !.y = spark.y + spark.vy,
                                 !.age = spark.age + 1]

updateSparks(ss) ==
    LET kept == SelectSeq(ss, Alive)
    IN  [i \in 1 .. Len(kept) |-> AgeSpark(kept[i])]

\* BaseScore interpolating from minScore upwards
BaseScoreAscending(asteroid) ==
    Round(10 * (70 - 12) + (asteroid.targetRadius - 12) * (100 - 10), 70 - 12)

BaseScore(asteroid) ==
    \* Math.round(maxScore - t * (maxScore - minScore)), t = (targetRadius - 12) / (70 - 12)
    Round(100 * (70 - 12) - (asteroid.targetRadius - 12) * (100 - 10), 70 - 12)

\* Multiplier dividing by the range in percent (MIN_SNIPE_DISTANCE * bulletRangePercent)
\* instead of the range in pixels
MultiplierPerPercent(bullet) ==
    IF /\ MIN_SNIPE_DISTANCE_INV * bullet.distanceTraveled >= bullet.maxDistance
       /\ bullet.deltaShotTime > SNIPE_TIME_THRESHOLD
    THEN Round(2 * bullet.distanceTraveled * MIN_SNIPE_DISTANCE_INV, 100)
    ELSE 1

\* Multiplier with either snipe condition enough
MultiplierEither(bullet) ==
    IF \/ MIN_SNIPE_DISTANCE_INV * bullet.distanceTraveled >= bullet.maxDistance
       \/ bullet.deltaShotTime > SNIPE_TIME_THRESHOLD
    THEN Round(2 * bullet.distanceTraveled * MIN_SNIPE_DISTANCE_INV, bullet.maxDistance)
    ELSE 1

Multiplier(bullet) ==
    IF /\ MIN_SNIPE_DISTANCE_INV * bullet.distanceTraveled >= bullet.maxDistance
       /\ bullet.deltaShotTime > SNIPE_TIME_THRESHOLD
    THEN Round(2 * bullet.distanceTraveled * MIN_SNIPE_DISTANCE_INV, bullet.maxDistance)
    ELSE 1

\* the ScoreResult of computeScoreForHit; label << >> stands for undefined, and
\* <<"SNIPE (", baseScore, "x", multiplier, ")">> for the template string
computeScoreForHit(asteroid, bullet) ==
    LET baseScore == BaseScore(asteroid)
        multiplier == Multiplier(bullet)
    IN  [value |-> baseScore * multiplier,
         label |-> IF multiplier > 1 THEN <<"SNIPE (", baseScore, "x", multiplier, ")">>
                   ELSE << >>]

---------------------------------------------------------------------------
(* The state of GameCanvas.svelte after construction *)

gameVars == <<ship, keys, asteroids, bullets, sparks, snippets, score, lastShotTime,
              gameOn, paused, currentLevel, now, timers, ticks, passLog, events, gravity, examined>>

NoCall == [op |-> "none"]
NoRet == [done |-> FALSE, value |-> << >>]

\* GameCanvas.svelte: let ship = { x: width / 2, y: height / 2, angle: 0, velocity: {x: 0, y: 0},
\* rotationSpeed: 3 degrees, acceleration: 0.1, radius: 10 }.  The ship's position, velocity
\* and acceleration are in tenths of a pixel.
InitShip ==
    [x |-> 10 * (width \div 2), y |-> 10 * (height \div 2), angle |-> 0,
     velocity |-> [x |-> 0, y |-> 0], rotationSpeed |-> 3, acceleration |-> 1, radius |-> 10]

\* the clock when the page is loaded: some time of the year 2025, in ms since the epoch,
\* counted from a day's start to stay within TLC's integers
Epoch == 1000000000

\* the game's variables right after the script has run (before onMount)
InitState ==
    [ship |-> InitShip, keys |-> {}, asteroids |-> << >>, bullets |-> << >>,
     sparks |-> << >>, snippets |-> << >>, score |-> 0, lastShotTime |-> 0,
     gameOn |-> FALSE, paused |-> FALSE, currentLevel |-> 1, now |-> Epoch,
     timers |-> << >>]

GameIs(g) ==
    /\ ship = g.ship
    /\ keys = g.keys
    /\ asteroids = g.asteroids
    /\ bullets = g.bullets
    /\ sparks = g.sparks
    /\ snippets = g.snippets
    /\ score = g.score
    /\ lastShotTime = g.lastShotTime
    /\ gameOn = g.gameOn
    /\ paused = g.paused
    /\ currentLevel = g.currentLevel
    /\ now = g.now
    /\ timers = g.timers
    /\ ticks = 0
    /\ passLog = << >>
    /\ events = 0
    /\ gravity = [lastTime |-> 0, log |-> << >>, times |-> << >>]
    /\ examined = << >>

InitGame == GameIs(InitState)

---------------------------------------------------------------------------
(* Values the pure-function specifications draw their arguments from *)

\* an asteroid of targetRadius r as spawnAsteroid builds it: radius = targetRadius = r,
\* area = Math.PI * r * r
MkAsteroid(x, y, angle, speed, r) ==
    [x |-> x, y |-> y, angle |-> angle, speed |-> speed, radius |-> r, targetRadius |-> r,
     area |-> r * r, vertexCount |-> 8, offsets |-> [i \in 1 .. 8 |-> 100], offsetAngle |-> 0]

\* a bullet as shootBullet builds it, after it has flown distanceTraveled
MkBullet(x, y, vx, vy, distanceTraveled, maxDistance, shotTime, deltaShotTime) ==
    [x |-> x, y |-> y, vx |-> vx, vy |-> vy, distanceTraveled |-> distanceTraveled,
     maxDistance |-> maxDistance, shotTime |-> shotTime, deltaShotTime |-> deltaShotTime]

Radii == smallestFragmentRadius .. maxRadius

---------------------------------------------------------------------------
(* Specification SpecFragment: fragmentAsteroid(bullet, asteroid) on its own *)

FragmentCalls ==
    [op : {"fragmentAsteroid"},
     bullet : {MkBullet(400, 300, v[1], v[2], 70, width, Epoch, 500) :
                  v \in {<<bulletSpeed, 0>>, <<0, -bulletSpeed>>}},
     asteroid : {MkAsteroid(400, 300, a, s, r) : a \in {0, 90}, s \in {1, 2}, r \in Radii},
     tape : Tapes]

InitFragment ==
    /\ InitGame
    /\ call \in FragmentCalls
    /\ ret = NoRet

CallFragmentAsteroid ==
    /\ call.op = "fragmentAsteroid"
    /\ ~ret.done
    /\ ret' = [done |-> TRUE,
               value |-> fragmentAsteroid(call.bullet, call.asteroid, call.tape)]
    /\ UNCHANGED <<call, gameVars>>

NextFragment == CallFragmentAsteroid

SpecFragment == InitFragment /\ [][NextFragment]_vars

RECURSIVE SumAreas(_)
SumAreas(fragments) ==
    IF fragments = << >> THEN 0
    ELSE fragments[1].area + SumAreas(Tail(fragments))

\* C1: for every call fragmentAsteroid(bullet, asteroid) the areas of the returned
\* fragments sum to at most asteroid.area, and every returned fragment has an area of
\* at least smallestFragmentArea.
AreaBound ==
    (call.op = "fragmentAsteroid" /\ ret.done) =>
        /\ SumAreas(ret.value) <= call.asteroid.area
        /\ \A i \in 1 .. Len(ret.value) : ret.value[i].area >= smallestFragmentArea

\* a call has returned three or more fragments, one of them bigger than the smallest
AreaBoundWitness ==
    /\ call.op = "fragmentAsteroid" /\ ret.done
    /\ Len(ret.value) >= 3
    /\ \E i \in 1 .. Len(ret.value) : ret.value[i].area > smallestFragmentArea

\* C2: for an asteroid with area < 2 * smallestFragmentArea, fragmentAsteroid returns
\* the empty sequence, whatever the bullet.
TerminalFragmentation ==
    (call.op = "fragmentAsteroid" /\ ret.done
       /\ call.asteroid.area < 2 * smallestFragmentArea) => ret.value = << >>

\* a call on an asteroid of radius 16 (area 256 < 288) has returned nothing
TerminalFragmentationWitness ==
    /\ call.op = "fragmentAsteroid" /\ ret.done
    /\ call.asteroid.targetRadius = 16
    /\ call.asteroid.area >= smallestFragmentArea
    /\ ret.value = << >>

\* C20: the carving loop of fragmentAsteroid ends, and as every pass through it takes
\* smallestFragmentArea or more from availableArea, the fragments returned number at
\* most floor(asteroid.area / smallestFragmentArea): 34 at most for the largest
\* asteroid, of radius 70.
CarvingBound ==
    (call.op = "fragmentAsteroid" /\ ret.done) =>
        /\ Len(ret.value) <= Floor(call.asteroid.area, smallestFragmentArea)
        /\ Len(ret.value) * smallestFragmentArea <= SumAreas(ret.value)
        /\ call.asteroid.radius = maxRadius =>
              /\ Floor(call.asteroid.area, smallestFragmentArea) = 34
              /\ Len(ret.value) <= 34

\* the asteroid of radius 70 has been carved into 34 fragments
CarvingBoundWitness ==
    /\ call.op = "fragmentAsteroid" /\ ret.done
    /\ call.asteroid.radius = maxRadius
    /\ Len(ret.value) = 34

---------------------------------------------------------------------------
(* Specification SpecBullets: bullets = updateBullets(bullets), tick after tick,      *)
(* on one bullet that hits nothing                                                    *)

\* updateBullets calls made at most
MaxBulletUpdates == 12

BulletVelocities ==
    {<<bulletSpeed, 0>>, <<0, bulletSpeed>>, <<-bulletSpeed, 0>>, <<0, -bulletSpeed>>,
     <<3, 4>>, <<-4, 3>>}

\* The bullet starts in the field, at a corner of it, or where shootBullet puts it,
\* bulletOriginOffset ahead of the ship: at x = 820 for a ship on the right edge, at
\* x = 1620 for a ship that thrust has taken beyond the field (velocity has no cap, and
\* update() brings the ship back by one field width per tick at most).
BulletCalls ==
    [op : {"updateBullets", "updateBulletsVoid"},
     bullet : {MkBullet(p[1], p[2], v[1], v[2], 0, D, Epoch, 500) :
                  p \in {<<420, 300>>, <<797, 3>>, <<2, 598>>, <<820, 300>>, <<1620, 300>>},
                  v \in BulletVelocities,
                  D \in {28, 30, 70, 75}}]

InitBullets ==
    /\ call \in BulletCalls
    /\ ret = NoRet
    /\ GameIs([InitState EXCEPT !.bullets = <<call.bullet>>])

CallUpdateBullets ==
    /\ call.op = "updateBullets"
    /\ ticks < MaxBulletUpdates
    /\ bullets' = updateBullets(bullets)
    /\ ticks' = ticks + 1
    /\ UNCHANGED <<ship, keys, asteroids, sparks, snippets, score, lastShotTime, gameOn,
                   paused, currentLevel, now, timers, passLog, events, call, ret, gravity, examined>>

\* update() of the component version that calls the void variant: updateBullets(bullets)
CallUpdateBulletsVoid ==
    /\ call.op = "updateBulletsVoid"
    /\ ticks < MaxBulletUpdates
    /\ bullets' = updateBulletsVoid(bullets)
    /\ ticks' = ticks + 1
    /\ UNCHANGED <<ship, keys, asteroids, sparks, snippets, score, lastShotTime, gameOn,
                   paused, currentLevel, now, timers, passLog, events, call, ret, gravity, examined>>

NextBullets == CallUpdateBullets \/ CallUpdateBulletsVoid

SpecBullets == InitBullets /\ [][NextBullets]_vars

\* the length of one step of the bullet the specification follows
StepOf(b) == Sqrt(b.vx * b.vx + b.vy * b.vy)

\* C3 (as amended): a bullet fired with maxDistance = D is in the array updateBullets
\* returns as long as its cumulative distanceTraveled is <= D and is removed by the
\* first call that takes distanceTraveled beyond D; a bullet of speed 7 with
\* maxDistance 70 that hits nothing is still live after 10 ticks and is removed by the 11th.
BulletRangeExpiry ==
    (call.op = "updateBullets" /\ ticks >= 1) =>
        /\ (bullets # << >>) = (ticks * StepOf(call.bullet) <= call.bullet.maxDistance)
        /\ \A i \in 1 .. Len(bullets) :
              bullets[i].distanceTraveled = ticks * StepOf(call.bullet)
        /\ (StepOf(call.bullet) = 7 /\ call.bullet.maxDistance = 70) =>
              (bullets = << >>) = (ticks >= 11)

\* the bullet of speed 7 and maxDistance 70 is gone after its 11th update
BulletRangeExpiryWitness ==
    /\ call.op = "updateBullets"
    /\ StepOf(call.bullet) = 7 /\ call.bullet.maxDistance = 70
    /\ ticks = 11
    /\ bullets = << >>

\* C3 as claimed: the bullet is removed once distanceTraveled >= D, so the bullet of
\* speed 7 and maxDistance 70 is removed after exactly 10 ticks.
BulletRemovedAtRange ==
    (call.op = "updateBullets" /\ ticks >= 1) =>
        /\ (bullets = << >>) = (ticks * StepOf(call.bullet) >= call.bullet.maxDistance)
        /\ (StepOf(call.bullet) = 7 /\ call.bullet.maxDistance = 70) =>
              (bullets = << >>) = (ticks >= 10)

\* C12: the distanceTraveled of a live bullet never decreases from tick to tick: every
\* updateBullets call adds exactly the Euclidean norm of the bullet's velocity to it,
\* also in the call that wraps the bullet's position round an edge.
DistanceMonotone ==
    [][call.op = "updateBullets" =>
          \A i \in 1 .. Len(bullets') :
              /\ bullets'[i].distanceTraveled = bullets[i].distanceTraveled + StepOf(bullets[i])
              /\ bullets'[i].distanceTraveled >= bullets[i].distanceTraveled
              /\ bullets'[i].distanceTraveled = ticks' * StepOf(call.bullet)]_vars

\* a live bullet whose position has wrapped round an edge, with the whole distance
\* of its ticks on its counter
DistanceMonotoneWitness ==
    /\ call.op = "updateBullets"
    /\ ticks >= 2
    /\ Len(bullets) = 1
    /\ \/ bullets[1].x # call.bullet.x + ticks * call.bullet.vx
       \/ bullets[1].y # call.bullet.y + ticks * call.bullet.vy
    /\ bullets[1].distanceTraveled = ticks * StepOf(call.bullet)
    /\ bullets[1].distanceTraveled > 0

\* Math.ceil(p / q), q > 0
Ceil(p, q) == (p + q - 1) \div q

\* C19: a fired bullet of non-zero speed that hits nothing does not stay live for more
\* than ceil(maxDistance / speed) + 1 ticks, neither with the updateBullets that returns
\* the filtered array nor with the one that returns void.
BulletLifetimeBounded ==
    (call.op \in {"updateBullets", "updateBulletsVoid"} /\ StepOf(call.bullet) > 0
       /\ ticks > Ceil(call.bullet.maxDistance, StepOf(call.bullet)) + 1) =>
        bullets = << >>

---------------------------------------------------------------------------
(* Specification SpecSparks: sparks = updateSparks(sparks), tick after tick, on one   *)
(* spark created at age 0                                                             *)

\* updateSparks calls made at most
MaxSparkUpdates == 52

SparkCalls ==
    [op : {"updateSparks"},
     spark : [x : {400}, y : {300}, vx : {-2, 0, 1}, vy : {-1, 0, 2}, age : {0}]]

InitSparks ==
    /\ call \in SparkCalls
    /\ ret = NoRet
    /\ GameIs([InitState EXCEPT !.sparks = <<call.spark>>])

CallUpdateSparks ==
    /\ call.op = "updateSparks"
    /\ ticks < MaxSparkUpdates
    /\ sparks' = updateSparks(sparks)
    /\ ticks' = ticks + 1
    /\ UNCHANGED <<ship, keys, asteroids, bullets, snippets, score, lastShotTime, gameOn,
                   paused, currentLevel, now, timers, passLog, events, call, ret, gravity, examined>>

NextSparks == CallUpdateSparks

SpecSparks == InitSparks /\ [][NextSparks]_vars

\* C4: a spark created at age 0 is in the collection updateSparks returns for exactly
\* sparkLifetime (50) ticks and in none of the later results.
SparkLifetime ==
    (call.op = "updateSparks" /\ ticks >= 1) =>
        /\ (sparks # << >>) = (ticks <= sparkLifetime)
        /\ \A i \in 1 .. Len(sparks) :
              /\ sparks[i].age = ticks
              /\ sparks[i].x = call.spark.x + ticks * call.spark.vx
              /\ sparks[i].y = call.spark.y + ticks * call.spark.vy

\* the 51st result no longer holds the spark
SparkLifetimeWitness ==
    /\ call.op = "updateSparks"
    /\ ticks = sparkLifetime + 1
    /\ sparks = << >>

---------------------------------------------------------------------------
(* Specification SpecScore: computeScoreForHit(asteroid, bullet) on its own, on two   *)
(* asteroids hit with the same bullet state                                           *)

ScoreCalls ==
    {c \in [op : {"computeScoreForHit"},
            asteroid : [targetRadius : Radii],
            other : [targetRadius : Radii],
            bullet : [distanceTraveled : {0, 7, 196, 199, 200, 203, 240, 399, 400, 798},
                      maxDistance : {width},
                      deltaShotTime : {0, 102, 500, 1000, 1001, 1500, Epoch}]] :
        \/ c.other.targetRadius \in {smallestFragmentRadius, maxRadius}
        \/ c.other.targetRadius - c.asteroid.targetRadius \in {1, 7}}

InitScore ==
    /\ InitGame
    /\ call \in ScoreCalls
    /\ ret = NoRet

CallComputeScoreForHit ==
    /\ call.op = "computeScoreForHit"
    /\ ~ret.done
    /\ ret' = [done |-> TRUE,
               value |-> computeScoreForHit(call.asteroid, call.bullet),
               other |-> computeScoreForHit(call.other, call.bullet)]
    /\ UNCHANGED <<call, gameVars>>

NextScore == CallComputeScoreForHit

SpecScore == InitScore /\ [][NextScore]_vars

\* both snipe conditions of a hit
SnipeTime(bullet) == bullet.deltaShotTime > 1000
SnipeDistance(bullet) == 4 * bullet.distanceTraveled >= bullet.maxDistance

ScoreMonotonicity ==
    (call.op = "computeScoreForHit" /\ ret.done
       /\ ~(SnipeTime(call.bullet) /\ SnipeDistance(call.bullet))) =>
        /\ call.asteroid.targetRadius = 12 => ret.value.value = 100
        /\ call.asteroid.targetRadius = 70 => ret.value.value = 10
        /\ call.asteroid.targetRadius <= call.other.targetRadius =>
              ret.value.value >= ret.other.value
        /\ ret.value.label = << >>
        /\ ret.value.value = BaseScore(call.asteroid)
        /\ ret.value.value \in 10 .. 100

\* the same bullet state, no snipe, on targetRadius 12 and 70: 100 and 10
ScoreMonotonicityWitness ==
    /\ call.op = "computeScoreForHit" /\ ret.done
    /\ call.bullet.deltaShotTime = 500 /\ call.bullet.distanceTraveled = 400
    /\ call.asteroid.targetRadius = 12 /\ call.other.targetRadius = 70
    /\ ret.value = [value |-> 100, label |-> << >>]
    /\ ret.other = [value |-> 10, label |-> << >>]

---------------------------------------------------------------------------
(* Specification SpecWrap: updateAsteroids(asteroids), tick after tick, on one asteroid *)

\* updateAsteroids calls made at most
MaxAsteroidUpdates == 3

\* the asteroids spawnAsteroid() returns, a quarter of the field beyond an edge
FreshAsteroids == {spawnAsteroid(tape, 0) : tape \in Tapes}

WrapCalls ==
    [op : {"updateAsteroids"},
     asteroid : {MkAsteroid(x, y, a, s, 26) :
                    x \in {-(width \div 4), -outerMargin, 400, width + outerMargin - 1,
                           width + outerMargin, width + outerMargin + 1, width + width \div 4},
                    y \in {-outerMargin, 300, height + outerMargin + 1},
                    a \in {0, 90, 180, -90},
                    s \in {1, 2}}
                \cup FreshAsteroids]

InitWrap ==
    /\ call \in WrapCalls
    /\ ret = NoRet
    /\ GameIs([InitState EXCEPT !.asteroids = <<call.asteroid>>])

CallUpdateAsteroids ==
    /\ call.op = "updateAsteroids"
    /\ ticks < MaxAsteroidUpdates
    /\ asteroids' = updateAsteroids(asteroids)
    /\ ticks' = ticks + 1
    /\ UNCHANGED <<ship, keys, bullets, sparks, snippets, score, lastShotTime, gameOn,
                   paused, currentLevel, now, timers, passLog, events, call, ret, gravity, examined>>

NextWrap == CallUpdateAsteroids

SpecWrap == InitWrap /\ [][NextWrap]_vars

\* the x component of an asteroid's velocity, as updateAsteroids adds it
VelX(a) == a.speed * Cos(a.angle)

\* C10 (as amended): an asteroid at x = width + outerMargin + 1 whose step does not take
\* it back to x <= width + outerMargin (the x component of its velocity is > -1) is
\* relocated to x = -outerMargin by the next updateAsteroids call; one moving left by a
\* pixel or more is moved by its step and not relocated.
ToroidalWraparound ==
    (call.op = "updateAsteroids" /\ ticks = 1
       /\ call.asteroid.x = width + outerMargin + 1) =>
        /\ Len(asteroids) = 1
        /\ VelX(call.asteroid) > -1 => asteroids[1].x = -outerMargin
        /\ VelX(call.asteroid) <= -1 => asteroids[1].x = call.asteroid.x + VelX(call.asteroid)

\* an asteroid at x = 851 moving right has been relocated to x = -50
ToroidalWraparoundWitness ==
    /\ call.op = "updateAsteroids" /\ ticks = 1
    /\ call.asteroid.x = width + outerMargin + 1
    /\ VelX(call.asteroid) > 0
    /\ asteroids[1].x = -outerMargin

\* C10 as claimed: the asteroid at x = width + outerMargin + 1 is relocated to
\* x = -outerMargin by the next updateAsteroids call, whatever its velocity.
WrapsWhateverVelocity ==
    (call.op = "updateAsteroids" /\ ticks = 1
       /\ call.asteroid.x = width + outerMargin + 1) =>
        asteroids[1].x = -outerMargin

---------------------------------------------------------------------------
(* Specification SpecExplosion: spawnExplosion(x, y, bullet, asteroid, sparks), once   *)
(* and again, on the caller's spark array                                             *)

\* spawnExplosion calls made at most
MaxExplosions == 2

ExplosionCalls ==
    [op : {"spawnExplosion"},
     x : {411}, y : {300, 0},
     bullet : {MkBullet(411, 300, bulletSpeed, 0, 210, width, Epoch, 500),
               MkBullet(411, 300, 0, -bulletSpeed, 7, width, Epoch, 50)},
     asteroid : {MkAsteroid(420, 300, 180, 1, r) : r \in {smallestFragmentRadius, 41, maxRadius}},
     sparks : {<< >>,
               <<[x |-> 100, y |-> 200, vx |-> 2, vy |-> 0, age |-> 0],
                 [x |-> 411, y |-> 300, vx |-> 0, vy |-> 1, age |-> 7]>>},
     tape : Tapes]

InitExplosion ==
    /\ call \in ExplosionCalls
    /\ ret = NoRet
    /\ GameIs([InitState EXCEPT !.sparks = call.sparks,
                                !.bullets = <<call.bullet>>,
                                !.asteroids = <<call.asteroid>>])

\* the call reads the bullet and the asteroid and writes neither
CallSpawnExplosion ==
    /\ call.op = "spawnExplosion"
    /\ ticks < MaxExplosions
    /\ sparks' = spawnExplosion(call.x, call.y, bullets[1], asteroids[1], sparks, call.tape)
    /\ ticks' = ticks + 1
    /\ UNCHANGED <<ship, keys, asteroids, bullets, snippets, score, lastShotTime, gameOn,
                   paused, currentLevel, now, timers, passLog, events, call, ret, gravity, examined>>

NextExplosion == CallSpawnExplosion

SpecExplosion == InitExplosion /\ [][NextExplosion]_vars

\* C15: spawnExplosion appends exactly 10 sparks to the spark array it is given, each of
\* age 0 and at the origin (x, y) of the call; the sparks that were in the array, the
\* bullet and the asteroid are as before.
ExplosionAppends ==
    [][call.op = "spawnExplosion" =>
          /\ Len(sparks') = Len(sparks) + 10
          /\ SubSeq(sparks', 1, Len(sparks)) = sparks
          /\ \A i \in Len(sparks) + 1 .. Len(sparks') :
                /\ sparks'[i].age = 0
                /\ sparks'[i].x = call.x
                /\ sparks'[i].y = call.y
          /\ bullets' = <<call.bullet>>
          /\ asteroids' = <<call.asteroid>>]_vars

\* the second explosion into an array that held two sparks: 22 sparks, the two old
\* ones first, one of them aged 7
ExplosionAppendsWitness ==
    /\ call.op = "spawnExplosion"
    /\ ticks = 2
    /\ Len(call.sparks) = 2
    /\ Len(sparks) = 22
    /\ sparks[2].age = 7
    /\ sparks[22].age = 0 /\ sparks[22].x = call.x /\ sparks[22].y = call.y

---------------------------------------------------------------------------
(* crawls.ts (createCrawl, updateCrawls): the floating texts *)

\* the quotient n / d of two numbers, kept as a fraction
Ratio(n, d) == [num |-> n, den |-> d]
\* p < q and p = q on fractions with positive denominators
RatioLess(p, q) == p.num * q.den < q.num * p.den
RatioIs(p, n, d) == p.num * d = n * p.den

defaultCrawlLifetime == 180
defaultCrawlVy == -3
defaultInitialFontSize == 100
defaultFinalFontSize == 1

\* text.toUpperCase() on the pieces of a text: the texts update() passes are a number,
\* <<value>>, or a label <<"SNIPE (", baseScore, "x", multiplier, ")">>, whose only
\* lower-case letter is its third piece
ToUpperCase(text) == IF Len(text) = 5 THEN [text EXCEPT ![3] = "X"] ELSE text

\* options?.f ?? d
OptionOr(options, f, d) == IF f \in DOMAIN options THEN options[f] ELSE d

\* createCrawl(text, options) (crawls.ts 27-79)
createCrawl(text, options) ==
    LET given == "vx" \in DOMAIN options /\ "vy" \in DOMAIN options
        mag == IF given THEN Sqrt(options.vx * options.vx + options.vy * options.vy) ELSE 0
        lifetime == OptionOr(options, "lifetime", defaultCrawlLifetime)
    IN  [x |-> OptionOr(options, "x", width \div 2),
         y |-> OptionOr(options, "y", height),
         text |-> ToUpperCase(text),
         alpha |-> Ratio(1, 1),
         lifetime |-> lifetime,
         initialLifetime |-> lifetime,
         vx |-> IF mag > 0 THEN Round(options.vx, mag) ELSE 0,
         vy |-> IF mag > 0 THEN Round(options.vy, mag) ELSE defaultCrawlVy,
         initialFontSize |-> OptionOr(options, "initialFontSize", defaultInitialFontSize),
         finalFontSize |-> OptionOr(options, "finalFontSize", defaultFinalFontSize)]

AgeCrawl(c) ==
    [c EXCEPT !.x = c.x + c.vx, !.y = c.y + c.vy, !.lifetime = c.lifetime - 1,
              !.alpha = Ratio(c.lifetime - 1, c.initialLifetime)]

\* CrawlLives with a crawl of lifetime 0 kept
CrawlLivesAtZero(c) == c.lifetime >= 0
CrawlLives(c) == c.lifetime > 0

\* updateCrawls(crawls) (crawls.ts 85-97)
updateCrawls(crawls) ==
    SelectSeq([i \in 1 .. Len(crawls) |-> AgeCrawl(crawls[i])], CrawlLives)

---------------------------------------------------------------------------
(* snippets.ts (createSnippet, updateSnippets): the floating score texts *)

defaultSnippetLifetime == 60

\* createSnippet(text, options): at options.x, options.y, moving one pixel per tick along
\* (options.vx, options.vy), straight up when that vector is zero
\* the lifetime, options.lifetime when the caller gives one; alpha starts at 1
createSnippet(text, options) ==
    LET mag == Sqrt(options.vx * options.vx + options.vy * options.vy)
        lifetime == IF "lifetime" \in DOMAIN options THEN options.lifetime
                    ELSE defaultSnippetLifetime
    IN  [x |-> options.x, y |-> options.y, text |-> ToUpperCase(text),
         alpha |-> Ratio(1, 1),
         lifetime |-> lifetime, initialLifetime |-> lifetime,
         vx |-> IF mag > 0 THEN Round(options.vx, mag) ELSE 0,
         vy |-> IF mag > 0 THEN Round(options.vy, mag) ELSE -1]

AgeSnippet(c) ==
    [c EXCEPT !.x = c.x + c.vx, !.y = c.y + c.vy, !.lifetime = c.lifetime - 1,
              !.alpha = Ratio(c.lifetime - 1, c.initialLifetime)]
SnippetLives(c) == c.lifetime > 0

\* updateSnippets(snippets): move, age, keep those with lifetime > 0
updateSnippets(cs) == SelectSeq([i \in 1 .. Len(cs) |-> AgeSnippet(cs[i])], SnippetLives)

---------------------------------------------------------------------------
(* Specification SpecSnippets: snippets = updateSnippets(snippets), and the same with *)
(* updateCrawls on a crawl, tick after tick, on one floating text                     *)

\* update calls made at most
MaxSnippetUpdates == 182

SnippetOptions ==
    {[x |-> 400, y |-> 300, vx |-> v[1], vy |-> v[2]] :
        v \in {<<7, 0>>, <<0, -7>>, <<0, 0>>}}
      \cup {[x |-> 400, y |-> 300, vx |-> 7, vy |-> 0, lifetime |-> l] : l \in 1 .. 3}

SnippetCalls ==
    [op : {"updateSnippets", "updateCrawls"},
     text : {<<55>>, <<"SNIPE (", 55, "x", 2, ")">>},
     options : SnippetOptions]

InitSnippets ==
    /\ call \in SnippetCalls
    /\ ret = NoRet
    /\ GameIs([InitState EXCEPT
                  !.snippets = <<IF call.op = "updateSnippets"
                                 THEN createSnippet(call.text, call.options)
                                 ELSE createCrawl(call.text, call.options)>>])

CallUpdateSnippets ==
    /\ call.op = "updateSnippets"
    /\ ticks < MaxSnippetUpdates
    /\ snippets' = updateSnippets(snippets)
    /\ ticks' = ticks + 1
    /\ UNCHANGED <<ship, keys, asteroids, bullets, sparks, score, lastShotTime, gameOn,
                   paused, currentLevel, now, timers, passLog, events, call, ret, gravity, examined>>

CallUpdateCrawls ==
    /\ call.op = "updateCrawls"
    /\ ticks < MaxSnippetUpdates
    /\ snippets' = updateCrawls(snippets)
    /\ ticks' = ticks + 1
    /\ UNCHANGED <<ship, keys, asteroids, bullets, sparks, score, lastShotTime, gameOn,
                   paused, currentLevel, now, timers, passLog, events, call, ret, gravity, examined>>

NextSnippets == CallUpdateSnippets \/ CallUpdateCrawls

SpecSnippets == InitSnippets /\ [][NextSnippets]_vars

\* the lifetime the text of the call was created with
CreatedLifetime ==
    OptionOr(call.options, "lifetime",
             IF call.op = "updateSnippets" THEN defaultSnippetLifetime
             ELSE defaultCrawlLifetime)

\* C13: after every update each retained snippet has lifetime > 0 and
\* alpha = lifetime / initialLifetime; the update takes exactly 1 from lifetime, so alpha
\* is strictly smaller than before; a snippet created with lifetime L is retained by
\* updates 1 .. L - 1, removed by update L, and is in no later result.
SnippetLifecycle ==
    [][call.op \in {"updateSnippets", "updateCrawls"} =>
          /\ (snippets' # << >>) = (ticks' < CreatedLifetime)
          /\ Len(snippets') <= Len(snippets)
          /\ \A i \in 1 .. Len(snippets') :
                /\ snippets'[i].lifetime > 0
                /\ snippets'[i].lifetime = snippets[i].lifetime - 1
                /\ snippets'[i].lifetime = CreatedLifetime - ticks'
                /\ snippets'[i].initialLifetime = CreatedLifetime
                /\ RatioIs(snippets'[i].alpha, snippets'[i].lifetime,
                           snippets'[i].initialLifetime)
                /\ RatioLess(snippets'[i].alpha, snippets[i].alpha)]_vars

\* a crawl created with a lifetime of 3 is gone after its third update
SnippetLifecycleWitness ==
    /\ call.op = "updateCrawls"
    /\ CreatedLifetime = 3
    /\ ticks = 3
    /\ snippets = << >>

---------------------------------------------------------------------------
(* GameCanvas.svelte: shootBullet, the key handlers, update, initAsteroids, nextLevel *)

bulletRangePercent == 100
bulletOriginOffset == 20
\* the time between two frames of requestAnimationFrame, in ms
FrameTime == 17
\* the delays of the two setTimeout calls
mountDelay == 2000
nextLevelDelay == 3000

\* shootBullet(ship, bulletRangePercent, bulletSpeed, lastShotTime) at Date.now() = t
shootBullet(s, rangePercent, speed, last, t) ==
    LET maxDistance == (rangePercent * width) \div 100
        shotTime == t
        deltaShotTime == shotTime - last
    IN  [bullet |-> [x |-> Round(s.x, 10) + bulletOriginOffset * Cos(s.angle),
                     y |-> Round(s.y, 10) + bulletOriginOffset * Sin(s.angle),
                     vx |-> speed * Cos(s.angle),
                     vy |-> speed * Sin(s.angle),
                     distanceTraveled |-> 0,
                     maxDistance |-> maxDistance,
                     shotTime |-> shotTime,
                     deltaShotTime |-> deltaShotTime],
         newLastShotTime |-> shotTime]

\* update(): the arrow keys turn and accelerate the ship
SteerShip(s, ks) ==
    LET angle1 == IF "ArrowLeft" \in ks THEN s.angle - s.rotationSpeed ELSE s.angle
        angle2 == IF "ArrowRight" \in ks THEN angle1 + s.rotationSpeed ELSE angle1
        thrust == "ArrowUp" \in ks
    IN  [s EXCEPT !.angle = angle2,
                  !.velocity = IF thrust
                               THEN [x |-> s.velocity.x + s.acceleration * Cos(angle2),
                                     y |-> s.velocity.y + s.acceleration * Sin(angle2)]
                               ELSE s.velocity]

\* update(): the ship moves and wraps at the edges of the field
MoveShip(s) ==
    LET x1 == s.x + s.velocity.x
        y1 == s.y + s.velocity.y
        x2 == IF x1 < 0 THEN x1 + 10 * width ELSE x1
        x3 == IF x2 > 10 * width THEN x2 - 10 * width ELSE x2
        y2 == IF y1 < 0 THEN y1 + 10 * height ELSE y1
        y3 == IF y2 > 10 * height THEN y2 - 10 * height ELSE y2
    IN  [s EXCEPT !.x = x3, !.y = y3]

\* dx * dx + dy * dy < asteroid.radius * asteroid.radius
Overlaps(bullet, asteroid) ==
    LET dx == bullet.x - asteroid.x
        dy == bullet.y - asteroid.y
    IN  dx * dx + dy * dy < asteroid.radius * asteroid.radius

\* array.splice(i, 1), indices from 1
RemoveAt(s, i) == SubSeq(s, 1, i - 1) \o SubSeq(s, i + 1, Len(s))

\* HitAsteroids leaving the asteroid that was hit in the array
HitAsteroidsKeep(as, j, fragments) == as \o fragments
\* asteroids.splice(j, 1); asteroids.push(...fragments)
HitAsteroids(as, j, fragments) == RemoveAt(as, j) \o fragments

\* HitBullets leaving the bullet that hit in the array
HitBulletsKeep(bs, i) == bs
\* if (hit) bullets.splice(i, 1)
HitBullets(bs, i) == RemoveAt(bs, i)

\* label || '' + value
SnippetText(res) == IF res.label # << >> THEN res.label ELSE <<res.value>>

\* the inner loop, for (let j = asteroids.length - 1; j >= 0; j--): the asteroid the
\* bullet hits, the last one of the array it is inside; 0 if it is inside none
FirstHit(bullet, as) ==
    LET hits == {j \in 1 .. Len(as) : Overlaps(bullet, as[j])}
    IN  IF hits = {} THEN 0 ELSE CHOOSE h \in hits : \A g \in hits : g <= h

\* Hit with the value of the hit put in place of the score, not added to it
HitScoreReplaced(st, i, j, bullet, asteroid, res, fragments, tape) ==
    [score |-> res.value,
     snippets |-> Append(st.snippets, createSnippet(SnippetText(res), bullet)),
     sparks |-> spawnExplosion(bullet.x, bullet.y, bullet, asteroid, st.sparks, tape),
     asteroids |-> HitAsteroids(st.asteroids, j, fragments),
     bullets |-> HitBullets(st.bullets, i),
     orig |-> IF j <= st.orig THEN st.orig - 1 ELSE st.orig,
     log |-> Append(st.log,
                    [bullet |-> bullet, asteroid |-> asteroid, fresh |-> j > st.orig,
                     value |-> res.value, label |-> res.label,
                     fragments |-> Len(fragments), made |-> fragments]),
     seen |-> st.seen]

\* the body of  if (dx * dx + dy * dy < asteroid.radius * asteroid.radius) { ... }  and
\* bullets.splice(i, 1), given res = computeScoreForHit(asteroid, bullet) and
\* fragments = fragmentAsteroid(bullet, asteroid).  st.orig counts the asteroids of
\* st.asteroids that were there when the pass began (they come first); st.log notes each hit.
Hit(st, i, j, bullet, asteroid, res, fragments, tape) ==
    [score |-> st.score + res.value,
     snippets |-> Append(st.snippets, createSnippet(SnippetText(res), bullet)),
     sparks |-> spawnExplosion(bullet.x, bullet.y, bullet, asteroid, st.sparks, tape),
     asteroids |-> HitAsteroids(st.asteroids, j, fragments),
     bullets |-> HitBullets(st.bullets, i),
     orig |-> IF j <= st.orig THEN st.orig - 1 ELSE st.orig,
     log |-> Append(st.log,
                    [bullet |-> bullet, asteroid |-> asteroid, fresh |-> j > st.orig,
                     value |-> res.value, label |-> res.label,
                     fragments |-> Len(fragments), made |-> fragments]),
     seen |-> st.seen]

\* the collision pass from bullet i downwards, for (let i = bullets.length - 1; i >= 0; i--)
RECURSIVE CollisionPass(_, _, _)
RECURSIVE BulletAgainst(_, _, _, _)
CollisionPass(st, i, tape) ==
    IF i < 1 THEN st
    ELSE BulletAgainst([st EXCEPT !.seen = Append(@, st.bullets[i])], i,
                       FirstHit(st.bullets[i], st.asteroids), tape)

\* BulletAgainst going on, after a hit, two places down: past the place the removed
\* bullet has left and past the bullet below it
BulletAgainstSkipping(st, i, j, tape) ==
    IF j = 0 THEN CollisionPass(st, i - 1, tape)
    ELSE CollisionPass(Hit(st, i, j, st.bullets[i], st.asteroids[j],
                           computeScoreForHit(st.asteroids[j], st.bullets[i]),
                           fragmentAsteroid(st.bullets[i], st.asteroids[j], tape), tape),
                       i - 2, tape)

\* bullet i, which hits asteroid j (none if j = 0), and the bullets below it
BulletAgainst(st, i, j, tape) ==
    IF j = 0 THEN CollisionPass(st, i - 1, tape)
    ELSE CollisionPass(Hit(st, i, j, st.bullets[i], st.asteroids[j],
                           computeScoreForHit(st.asteroids[j], st.bullets[i]),
                           fragmentAsteroid(st.bullets[i], st.asteroids[j], tape), tape),
                       i - 1, tape)

\* Fires with a shot allowed at shootCooldown ms exactly
FiresAtCooldown(g) == " " \in g.keys /\ g.now - g.lastShotTime >= shootCooldown
\* update(): keys[' '] && Date.now() - lastShotTime > shootCooldown
Fires(g) == " " \in g.keys /\ g.now - g.lastShotTime > shootCooldown

\* update(): the bullets after the shot, if one is fired, and updateBullets
BulletsOfTick(g, fire, shot) ==
    updateBullets(IF fire THEN Append(g.bullets, shot.bullet) ELSE g.bullets)

\* update(): the collision pass on the asteroids and bullets of the tick
PassOfTick(g, as, bs, tape) ==
    CollisionPass([score |-> g.score, snippets |-> g.snippets, sparks |-> g.sparks,
                   asteroids |-> as, bullets |-> bs, orig |-> Len(as), log |-> << >>,
                   seen |-> << >>],
                  Len(bs), tape)

\* AfterPass without the updateSparks and updateSnippets calls that follow the pass
AfterPassAsLeft(g, ship1, fire, shot, pass) ==
    LET levelDone == g.gameOn /\ pass.asteroids = << >>
    IN  [g EXCEPT !.ship = MoveShip(ship1),
                  !.lastShotTime = IF fire THEN shot.newLastShotTime ELSE @,
                  !.asteroids = pass.asteroids,
                  !.bullets = pass.bullets,
                  !.score = pass.score,
                  !.gameOn = IF levelDone THEN FALSE ELSE @,
                  !.currentLevel = IF levelDone THEN @ + 1 ELSE @,
                  !.timers = IF levelDone THEN Append(@, g.now + nextLevelDelay) ELSE @,
                  !.sparks = pass.sparks,
                  !.snippets = pass.snippets,
                  !.passLog = pass.log,
                  !.examined = pass.seen]

\* AfterPass with a nextLevel() that leaves gameOn as it is
AfterPassStaysOn(g, ship1, fire, shot, pass) ==
    LET levelDone == g.gameOn /\ pass.asteroids = << >>
    IN  [g EXCEPT !.ship = MoveShip(ship1),
                  !.lastShotTime = IF fire THEN shot.newLastShotTime ELSE @,
                  !.asteroids = pass.asteroids,
                  !.bullets = pass.bullets,
                  !.score = pass.score,
                  !.currentLevel = IF levelDone THEN @ + 1 ELSE @,
                  !.timers = IF levelDone THEN Append(@, g.now + nextLevelDelay) ELSE @,
                  !.sparks = updateSparks(pass.sparks),
                  !.snippets = updateSnippets(pass.snippets),
                  !.passLog = pass.log,
                  !.examined = pass.seen]

\* AfterPass with nextLevel() called whenever no asteroid is left, gameOn or not
AfterPassUnguarded(g, ship1, fire, shot, pass) ==
    LET levelDone == pass.asteroids = << >>
    IN  [g EXCEPT !.ship = MoveShip(ship1),
                  !.lastShotTime = IF fire THEN shot.newLastShotTime ELSE @,
                  !.asteroids = pass.asteroids,
                  !.bullets = pass.bullets,
                  !.score = pass.score,
                  !.gameOn = IF levelDone THEN FALSE ELSE @,
                  !.currentLevel = IF levelDone THEN @ + 1 ELSE @,
                  !.timers = IF levelDone THEN Append(@, g.now + nextLevelDelay) ELSE @,
                  !.sparks = updateSparks(pass.sparks),
                  !.snippets = updateSnippets(pass.snippets),
                  !.passLog = pass.log,
                  !.examined = pass.seen]

\* update(): the game after the tick, given the ship as steered, the shot and the pass
AfterPass(g, ship1, fire, shot, pass) ==
    LET \* if (gameOn && !asteroids.length) nextLevel()
        levelDone == g.gameOn /\ pass.asteroids = << >>
    IN  [g EXCEPT !.ship = MoveShip(ship1),
                  !.lastShotTime = IF fire THEN shot.newLastShotTime ELSE @,
                  !.asteroids = pass.asteroids,
                  !.bullets = pass.bullets,
                  !.score = pass.score,
                  !.gameOn = IF levelDone THEN FALSE ELSE @,
                  !.currentLevel = IF levelDone THEN @ + 1 ELSE @,
                  !.timers = IF levelDone THEN Append(@, g.now + nextLevelDelay) ELSE @,
                  !.sparks = updateSparks(pass.sparks),
                  !.snippets = updateSnippets(pass.snippets),
                  !.passLog = pass.log,
                  !.examined = pass.seen]

\* update(): from the shot on
AfterShot(g, ship1, fire, shot, tape) ==
    AfterPass(g, ship1, fire, shot,
              PassOfTick(g, updateAsteroids(g.asteroids), BulletsOfTick(g, fire, shot), tape))

\* update(): from the steering of the ship on
AfterSteer(g, ship1, tape) ==
    AfterShot(g, ship1, Fires(g),
              shootBullet(ship1, bulletRangePercent, bulletSpeed, g.lastShotTime, g.now),
              tape)

\* update() when the game is not paused, at Date.now() = g.now; g is the game before it
update(g, tape) == AfterSteer(g, SteerShip(g.ship, g.keys), tape)

\* the bullets of a tick as its collision pass finds them
MovedBullets(g) ==
    BulletsOfTick(g, Fires(g),
                  shootBullet(SteerShip(g.ship, g.keys), bulletRangePercent, bulletSpeed,
                              g.lastShotTime, g.now))

\* the pairs (bullet, asteroid) of bs and as with the bullet inside the asteroid
OverlapsOf(bs, as) ==
    {p \in (1 .. Len(bs)) \X (1 .. Len(as)) : Overlaps(bs[p[1]], as[p[2]])}

\* initAsteroids(): numAsteroids asteroids, the k-th spawnAsteroid reading on from draw n
RECURSIVE Spawned(_, _, _)
Spawned(tape, n, k) ==
    IF k = 0 THEN << >>
    ELSE LET a == spawnAsteroid(tape, n)
         IN  <<a>> \o Spawned(tape, n + 9 + a.vertexCount, k - 1)

initAsteroids(as, tape) == as \o Spawned(tape, 0, numAsteroids)

\* the game as a record
Game ==
    [ship |-> ship, keys |-> keys, asteroids |-> asteroids, bullets |-> bullets,
     sparks |-> sparks, snippets |-> snippets, score |-> score,
     lastShotTime |-> lastShotTime, gameOn |-> gameOn, paused |-> paused,
     currentLevel |-> currentLevel, now |-> now, timers |-> timers, passLog |-> passLog,
     examined |-> examined]

GameBecomes(g) ==
    /\ ship' = g.ship
    /\ keys' = g.keys
    /\ asteroids' = g.asteroids
    /\ bullets' = g.bullets
    /\ sparks' = g.sparks
    /\ snippets' = g.snippets
    /\ score' = g.score
    /\ lastShotTime' = g.lastShotTime
    /\ gameOn' = g.gameOn
    /\ paused' = g.paused
    /\ currentLevel' = g.currentLevel
    /\ now' = g.now
    /\ timers' = g.timers
    /\ passLog' = g.passLog
    /\ examined' = g.examined


---------------------------------------------------------------------------
(* The game: frames, key events, timers *)

\* update() calls made at most
MaxTicks == 30
\* key presses, key releases and stalls at most
MaxEvents == 1
\* a stall of the frame loop (the page is hidden, the machine is busy), in ms
StallTime == 1001

Keys == {" ", "Enter", "ArrowLeft", "ArrowRight", "ArrowUp"}

\* a setTimeout callback is due
TimerDue == timers # << >> /\ now >= timers[1]

\* the draws of Math.random() the game is followed through: all low, all high, and
\* 2/4, 3/4, 2/4, ...
GameTapes == {<<0, 0>>, <<3, 3>>, <<2, 3>>}

\* the draws of Math.random() a tick may see: a tick without a hit makes none
TapesOfTick(g) ==
    IF ~g.paused /\ OverlapsOf(MovedBullets(g), updateAsteroids(g.asteroids)) # {}
    THEN GameTapes ELSE {<<0, 0>>}

\* one frame whose update() does not look at paused
FrameIgnoresPause(g, tape) == [update(g, tape) EXCEPT !.now = g.now + FrameTime]

\* gameLoop(): the game after a frame; the next one comes FrameTime later
Frame(g, tape) == [(IF g.paused THEN g ELSE update(g, tape)) EXCEPT !.now = g.now + FrameTime]

\* gameLoop(): one frame.  update() reads the clock; the next frame comes FrameTime later.
Tick ==
    /\ ticks < MaxTicks
    /\ ~TimerDue
    /\ \E tape \in TapesOfTick(Game) : GameBecomes(Frame(Game, tape))
    /\ ticks' = ticks + 1
    /\ UNCHANGED <<events, call, ret, gravity>>

\* handleKeyDown(e), e.key = k
KeyDown(k) ==
    /\ events < MaxEvents
    /\ paused' = IF paused THEN FALSE
                 ELSE IF k = "Enter" THEN ~paused ELSE paused
    /\ keys' = keys \cup {k}
    /\ events' = events + 1
    /\ UNCHANGED <<ship, asteroids, bullets, sparks, snippets, score, lastShotTime, gameOn,
                   currentLevel, now, timers, ticks, passLog, call, ret, gravity, examined>>

\* handleKeyUp(e), e.key = k
KeyUp(k) ==
    /\ events < MaxEvents
    /\ k \in keys
    /\ keys' = keys \ {k}
    /\ events' = events + 1
    /\ UNCHANGED <<ship, asteroids, bullets, sparks, snippets, score, lastShotTime, gameOn,
                   paused, currentLevel, now, timers, ticks, passLog, call, ret, gravity, examined>>

\* no frame for a while: StallTime, or the time until the pending timer is due
Stall ==
    /\ events < MaxEvents
    /\ ~TimerDue
    /\ \E d \in {StallTime} \cup {timers[i] - now : i \in 1 .. Len(timers)} :
          now' = now + d
    /\ events' = events + 1
    /\ UNCHANGED <<ship, keys, asteroids, bullets, sparks, snippets, score, lastShotTime,
                   gameOn, paused, currentLevel, timers, ticks, passLog, call, ret, gravity, examined>>

\* the callback of setTimeout: initAsteroids()
TimerFire ==
    /\ TimerDue
    /\ \E tape \in GameTapes \cup {<<1, 2>>} : asteroids' = initAsteroids(asteroids, tape)
    /\ gameOn' = TRUE
    /\ timers' = Tail(timers)
    /\ UNCHANGED <<ship, keys, bullets, sparks, snippets, score, lastShotTime, paused,
                   currentLevel, now, ticks, passLog, events, call, ret, gravity, examined>>

Next ==
    \/ Tick
    \/ \E k \in Keys : KeyDown(k)
    \/ \E k \in Keys : KeyUp(k)
    \/ Stall
    \/ TimerFire

\* onMount(): asteroids = [], setTimeout(initAsteroids, 2000), gameLoop()
Init ==
    /\ call = NoCall
    /\ ret = NoRet
    /\ GameIs([InitState EXCEPT !.timers = <<InitState.now + mountDelay>>])

Spec == Init /\ [][Next]_vars

---------------------------------------------------------------------------
(* Specification SpecPlay: the game taken up in the middle of play *)

\* Level 1 untouched: the page was loaded, initAsteroids() ran at 2000 ms with the draws
\* 1/4, 2/4, 1/4, ..., which put all eight asteroids at the right edge (x = 1000, y = 300,
\* heading left at one pixel per tick, radius 41), and untilUntouched frames have passed
\* since without a key pressed: the first updateAsteroids took them to x = -50, the second
\* to x = 850, every later one a pixel to the left.  No shot has been fired yet.
untilUntouched == 152
UntouchedLevel ==
    [InitState EXCEPT !.asteroids = [i \in 1 .. numAsteroids |->
                                        [initAsteroids(<< >>, <<1, 2>>)[i]
                                            EXCEPT !.x = width + outerMargin
                                                         - (untilUntouched - 2)]],
                      !.gameOn = TRUE,
                      !.now = InitState.now + mountDelay + untilUntouched * FrameTime]

\* the clock of the scenarios that follow: some minutes into the game
PlayTime == Epoch + 300000

\* One asteroid is left, alone on the ship's line of fire.  The last shot was fired 500 ms
\* ago and its bullet is gone.
LastAsteroid(x, angle, speed, r) ==
    [InitState EXCEPT !.asteroids = <<MkAsteroid(x, height \div 2, angle, speed, r)>>,
                      !.gameOn = TRUE,
                      !.score = 1000,
                      !.lastShotTime = PlayTime - 500,
                      !.now = PlayTime]

\* One asteroid is left, moving right ahead of the ship, and the bullet of the last shot,
\* fired 113 frames ago, has crossed the right edge and comes up behind the asteroid with
\* 9 pixels of its range left.
BulletComesRound ==
    [InitState EXCEPT !.asteroids = <<MkAsteroid(466, height \div 2, 0, 2, 55)>>,
                      !.bullets = <<MkBullet(411, height \div 2, bulletSpeed, 0, 791, width,
                                             PlayTime - 113 * FrameTime, 500)>>,
                      !.gameOn = TRUE,
                      !.score = 1000,
                      !.lastShotTime = PlayTime - 113 * FrameTime,
                      !.now = PlayTime]

\* The same, the shot having been fired 1500 ms after the one before it.
SnipeComesRound ==
    [BulletComesRound EXCEPT
        !.bullets = <<MkBullet(411, height \div 2, bulletSpeed, 0, 791, width,
                               PlayTime - 113 * FrameTime, 1500)>>]

\* The space bar is held, and the last shot was fired shootCooldown ms ago exactly; its
\* bullet is gone.
CooldownJustOver ==
    [LastAsteroid(450, 180, 1, smallestFragmentRadius) EXCEPT
        !.keys = {" "}, !.lastShotTime = PlayTime - shootCooldown]

\* The page has just been mounted: no asteroid yet, initAsteroids due in mountDelay ms.
Mounted == [InitState EXCEPT !.timers = <<InitState.now + mountDelay>>]

\* Enter was pressed right after the page was mounted and the game has been paused since;
\* initAsteroids is due in two frames.
MountedPaused ==
    [Mounted EXCEPT !.keys = {"Enter"}, !.paused = TRUE,
                    !.now = InitState.now + mountDelay - 2 * FrameTime]

\* the scenarios, and the last of them again with the space bar just pressed
PlayStates ==
    {Mounted, MountedPaused, UntouchedLevel, BulletComesRound, SnipeComesRound,
     LastAsteroid(560, 180, 1, maxRadius), LastAsteroid(450, 180, 1, smallestFragmentRadius),
     [LastAsteroid(450, 180, 1, smallestFragmentRadius) EXCEPT !.keys = {" "}],
     CooldownJustOver}

InitPlay ==
    /\ call = NoCall
    /\ ret = NoRet
    /\ \E g \in PlayStates : GameIs(g)

SpecPlay == InitPlay /\ [][Next]_vars


\* C5: within one tick's collision pass, fragments produced by a hit are not tested against
\* the remaining bullets of that tick: no asteroid created during the pass is destroyed
\* during the same pass.
NoChainDestruction == \A k \in 1 .. Len(passLog) : ~passLog[k].fresh

\* the bullets of the tick that starts in this state, moved, and its asteroids, moved
BulletsNow == MovedBullets(Game)
AsteroidsNow == updateAsteroids(asteroids)

\* what C6 promises of a tick whose collision pass starts with bullet bs[i] inside as[j]:
\* the asteroid is gone and the others are kept, the bullet is gone, the score is up by
\* 10, one or more fragments of a total area within the parent's have been appended, and
\* sparkCount sparks, created on this tick, have been added to the sparks that live on
HitOutcome(bs, as, i, j) ==
    LET kept == Len(as) - 1
        added == SubSeq(asteroids', kept + 1, Len(asteroids'))
        lived == Len(SelectSeq(sparks, Alive))
    IN  /\ \A k \in 1 .. Len(asteroids') : asteroids'[k] # as[j]
        /\ SubSeq(asteroids', 1, kept) = RemoveAt(as, j)
        /\ bullets' = RemoveAt(bs, i)
        /\ score' = score + 10
        /\ Len(added) >= 1
        /\ SumAreas(added) <= as[j].area
        /\ Len(sparks') = lived + 10
        /\ \A k \in lived + 1 .. Len(sparks') : sparks'[k].age = 1

\* C6: in a tick where one bullet (no snipe) overlaps one asteroid with targetRadius = 70,
\* the asteroid is removed from the live set, the bullet is removed, score increases by
\* exactly 10, at least one fragment is added, the fragments' total area is at most the
\* parent's area, and exactly 10 sparks are added to the spark collection.
EndToEndHit ==
    [][(ticks' = ticks + 1 /\ call.op = "none" /\ ~paused) =>
          \A p \in OverlapsOf(BulletsNow, AsteroidsNow) :
              (/\ OverlapsOf(BulletsNow, AsteroidsNow) = {p}
               /\ AsteroidsNow[p[2]].targetRadius = 70
               /\ ~(SnipeTime(BulletsNow[p[1]]) /\ SnipeDistance(BulletsNow[p[1]])))
              => HitOutcome(BulletsNow, AsteroidsNow, p[1], p[2])]_vars

\* the tick just taken had one hit, without a snipe, on the asteroid of targetRadius 70:
\* the score went from 1000 to 1010, the bullet is gone, the fragments are the asteroids
\* there are, and the ten sparks are one tick old
EndToEndHitWitness ==
    /\ call.op = "none"
    /\ Len(passLog) = 1
    /\ passLog[1].asteroid.targetRadius = 70
    /\ passLog[1].label = << >>
    /\ score = 1010
    /\ bullets = << >>
    /\ passLog[1].fragments >= 1
    /\ Len(asteroids) = passLog[1].fragments
    /\ Len(sparks) = 10
    /\ \A k \in 1 .. Len(sparks) : sparks[k].age = 1

\* C7: the first shot fired in a game (its deltaShotTime is its shotTime less the initial
\* lastShotTime, 0) never earns a snipe bonus, whatever distance it travels before hitting.
FirstShotNeverSnipes ==
    \A k \in 1 .. Len(passLog) :
        passLog[k].bullet.deltaShotTime = passLog[k].bullet.shotTime =>
            /\ passLog[k].label = << >>
            /\ passLog[k].value = BaseScore(passLog[k].asteroid)

---------------------------------------------------------------------------
(* Bullets and the collision pass over the whole game (SpecPlay) *)

\* the shot times of the bullets of bs; no two bullets are fired at the same time
ShotTimes(bs) == {bs[i].shotTime : i \in 1 .. Len(bs)}

\* C11: bullets do not pierce.  In a collision pass no bullet hits twice, a bullet that
\* hits is not among the live bullets when the tick ends, and a live bullet is either one
\* fired on this tick or one that was live before it: a bullet that has hit never comes
\* back, so no bullet destroys two asteroids over its lifetime.
BulletsDoNotPierce ==
    [][(ticks' = ticks + 1 /\ call.op = "none" /\ ~paused) =>
          /\ \A k, l \in 1 .. Len(passLog') :
                k # l => passLog'[k].bullet.shotTime # passLog'[l].bullet.shotTime
          /\ \A k \in 1 .. Len(passLog') :
                /\ passLog'[k].bullet.shotTime \notin ShotTimes(bullets')
                /\ passLog'[k].bullet.shotTime \in ShotTimes(bullets) \cup {now}
          /\ ShotTimes(bullets') \subseteq ShotTimes(bullets) \cup {now}
          /\ Len(bullets') = Cardinality(ShotTimes(bullets'))]_vars

\* a bullet inside several asteroids at once has destroyed one of them and is gone, and
\* an asteroid it was inside as well is still there
BulletsDoNotPierceWitness ==
    /\ call.op = "none"
    /\ Len(passLog) = 1
    /\ passLog[1].bullet.shotTime \notin ShotTimes(bullets)
    /\ \E j \in 1 .. Len(asteroids) :
          /\ asteroids[j] = passLog[1].asteroid
          /\ Overlaps(passLog[1].bullet, asteroids[j])

\* the bullets among bs that were fired at time t
FiredAt(bs, t) == {i \in 1 .. Len(bs) : bs[i].shotTime = t}
\* the hits of the log whose bullet was fired at time t
HitsOfShot(log, t) == {k \in 1 .. Len(log) : log[k].bullet.shotTime = t}

\* C14: fire is rate-limited.  A tick creates a bullet exactly when the space bar is
\* down and more than shootCooldown ms have passed since the previous accepted shot; it
\* creates one bullet at most; an accepted shot sets the time the cooldown is measured
\* from, a rejected one leaves it alone; so the bullets in flight were fired more than
\* shootCooldown ms apart.
FireRateLimited ==
    [][(ticks' = ticks + 1 /\ call.op = "none" /\ ~paused) =>
          LET created == Cardinality(FiredAt(bullets', now))
                           + Cardinality(HitsOfShot(passLog', now))
              accepted == " " \in keys /\ now - lastShotTime > shootCooldown
          IN  /\ created = IF accepted THEN 1 ELSE 0
              /\ lastShotTime' = IF accepted THEN now ELSE lastShotTime
              /\ \A i \in FiredAt(bullets', now) :
                    bullets'[i].deltaShotTime = now - lastShotTime
              /\ \A i, j \in 1 .. Len(bullets') :
                    i < j => bullets'[j].shotTime - bullets'[i].shotTime > shootCooldown]_vars

\* the space bar is held: the shot before the last was followed by five rejected
\* intents, and the sixth frame, 102 ms later, fired the last
FireRateLimitedWitness ==
    /\ call.op = "none"
    /\ " " \in keys
    /\ Len(bullets) >= 2
    /\ bullets[Len(bullets)].shotTime = lastShotTime
    /\ now - lastShotTime = FrameTime
    /\ bullets[Len(bullets)].shotTime - bullets[Len(bullets) - 1].shotTime = 6 * FrameTime

\* the fragments the hits of a log made, in the order of the hits
RECURSIVE MadeBy(_)
MadeBy(log) == IF log = << >> THEN << >> ELSE log[1].made \o MadeBy(Tail(log))

\* the last n elements of s
LastOf(s, n) == SubSeq(s, Len(s) - n + 1, Len(s))

\* the sparks of hit k are as spawnExplosion left them: of age 0, at the bullet
SparksAsCreated(log, new) ==
    \A k \in 1 .. Len(log) : \A n \in 1 .. sparkCount :
        LET s == new[sparkCount * (k - 1) + n]
        IN  s.age = 0 /\ s.x = log[k].bullet.x /\ s.y = log[k].bullet.y

\* the sparks of hit k have been through one updateSparks: of age 1, one step from the bullet
SparksAdvancedOnce(log, new) ==
    \A k \in 1 .. Len(log) : \A n \in 1 .. sparkCount :
        LET s == new[sparkCount * (k - 1) + n]
        IN  s.age = 1 /\ s.x = log[k].bullet.x + s.vx /\ s.y = log[k].bullet.y + s.vy

\* the snippet of hit k is as createSnippet left it
SnippetsAsCreated(log, new) ==
    \A k \in 1 .. Len(log) :
        /\ new[k].lifetime = new[k].initialLifetime
        /\ new[k].x = log[k].bullet.x /\ new[k].y = log[k].bullet.y

\* the snippet of hit k has been through one updateSnippets
SnippetsAdvancedOnce(log, new) ==
    \A k \in 1 .. Len(log) :
        /\ new[k].lifetime = new[k].initialLifetime - 1
        /\ RatioIs(new[k].alpha, new[k].lifetime, new[k].initialLifetime)
        /\ new[k].x = log[k].bullet.x + new[k].vx
        /\ new[k].y = log[k].bullet.y + new[k].vy

\* the asteroids the tick leaves end with the fragments of its hits, as fragmentAsteroid
\* made them, bar those a later hit of the same pass destroyed
FragmentsAsCreated(log, as) ==
    \/ \E k \in 1 .. Len(log) : log[k].fresh
    \/ LastOf(as, Len(MadeBy(log))) = MadeBy(log)

---------------------------------------------------------------------------
(* gameLogic: applyGravitySpike(ship, asteroids), the gravity pulse, and the update() *)
(* of the component version that calls it while ArrowDown is held                     *)

\* the cooldown of the pulse, in ms
gravityCooldown == 3000
\* the force of the pulse is gravityForce / distance
gravityForce == 180
\* a candidate speed above it breaks the asteroid
gravityBreakSpeed == 10
\* a dot product of the asteroid's velocity and the force below it breaks the asteroid
gravityBreakDot == -1

\* PulseReady with the cooldown over one ms early
PulseReadyEarly(lastTime, t) == t - lastTime >= gravityCooldown - 1
\* the cooldown is over at time t
PulseReady(lastTime, t) == t - lastTime >= gravityCooldown

\* What the pulse does to asteroid a, the ship being s: nothing at distance zero.
\* Otherwise the candidate velocity is the force (directed away from the ship) plus half
\* the ship's velocity plus the asteroid's velocity, and the asteroid is struck if the
\* candidate is too fast or the force opposes the asteroid's velocity.
PulseOn(s, a) ==
    LET dx == a.x - Round(s.x, 10)
        dy == a.y - Round(s.y, 10)
        d2 == dx * dx + dy * dy
        fx == IF d2 = 0 THEN 0 ELSE Round(gravityForce * dx, d2)
        fy == IF d2 = 0 THEN 0 ELSE Round(gravityForce * dy, d2)
        avx == a.speed * Cos(a.angle)
        avy == a.speed * Sin(a.angle)
        cvx == fx + Round(s.velocity.x, 20) + avx
        cvy == fy + Round(s.velocity.y, 20) + avy
    IN  [skip |-> d2 = 0,
         vx |-> cvx, vy |-> cvy,
         struck |-> d2 # 0 /\ (\/ cvx * cvx + cvy * cvy > gravityBreakSpeed * gravityBreakSpeed
                               \/ avx * fx + avy * fy < gravityBreakDot)]

\* the asteroid with the candidate velocity in place of its own
Pushed(a, p) == [a EXCEPT !.speed = Sqrt(p.vx * p.vx + p.vy * p.vy), !.angle = Atan2(p.vy, p.vx)]

\* the synthetic bullet that strikes asteroid a: at its position, with the candidate
\* velocity and no range
SyntheticBullet(a, p, t) == MkBullet(a.x, a.y, p.vx, p.vy, 0, 0, t, 0)

\* The body of the loop on an asteroid the pulse strikes, asteroid i, given the synthetic
\* bullet and the fragments fragmentAsteroid makes of it.  st.tags runs parallel to
\* st.asteroids: the place an asteroid had when the pulse began, 0 for a fragment of
\* this pulse.
PulseBreakInto(st, i, bullet, fragments, tape) ==
    [asteroids |-> RemoveAt(st.asteroids, i) \o fragments,
     tags |-> RemoveAt(st.tags, i) \o [k \in 1 .. Len(fragments) |-> 0],
     sparks |-> spawnExplosion(bullet.x, bullet.y, bullet, st.asteroids[i], st.sparks, tape),
     log |-> Append(st.log, [asteroid |-> st.asteroids[i], tag |-> st.tags[i],
                             struck |-> TRUE, made |-> Len(fragments)])]

PulseBreakBy(st, i, bullet, tape) ==
    PulseBreakInto(st, i, bullet, fragmentAsteroid(bullet, st.asteroids[i], tape), tape)

PulseBreak(st, i, p, t, tape) ==
    PulseBreakBy(st, i, SyntheticBullet(st.asteroids[i], p, t), tape)

\* the body of the loop on an asteroid the pulse does not strike: its velocity is
\* replaced by the candidate, unless it is at distance zero
PulsePush(st, i, p) ==
    [st EXCEPT !.asteroids[i] = IF p.skip THEN @ ELSE Pushed(@, p),
               !.log = Append(@, [asteroid |-> st.asteroids[i], tag |-> st.tags[i],
                                  struck |-> FALSE, made |-> 0])]

RECURSIVE PulseLoopExtraStep(_, _, _, _, _)
\* PulseLoop with the index taken down once more after a removal
PulseLoopExtraStep(st, i, s, t, tape) ==
    IF i < 1 THEN st
    ELSE IF PulseOn(s, st.asteroids[i]).struck
    THEN PulseLoopExtraStep(PulseBreak(st, i, PulseOn(s, st.asteroids[i]), t, tape),
                            i - 2, s, t, tape)
    ELSE PulseLoopExtraStep(PulsePush(st, i, PulseOn(s, st.asteroids[i])), i - 1, s, t, tape)

RECURSIVE PulseLoop(_, _, _, _, _)
\* the loop over the asteroids, from the last one down
PulseLoop(st, i, s, t, tape) ==
    IF i < 1 THEN st
    ELSE IF PulseOn(s, st.asteroids[i]).struck
    THEN PulseLoop(PulseBreak(st, i, PulseOn(s, st.asteroids[i]), t, tape), i - 1, s, t, tape)
    ELSE PulseLoop(PulsePush(st, i, PulseOn(s, st.asteroids[i])), i - 1, s, t, tape)

\* the result of a pulse that took effect at time t
PulseDone(st, t, times) ==
    [asteroids |-> st.asteroids, sparks |-> st.sparks,
     gravity |-> [lastTime |-> t, log |-> st.log, times |-> Append(times, t)]]

\* applyGravitySpike(ship, asteroids) at Date.now() = t: no effect within the cooldown
applyGravitySpike(s, as, sparkSink, g, t, tape) ==
    IF ~PulseReady(g.lastTime, t)
    THEN [asteroids |-> as, sparks |-> sparkSink, gravity |-> [g EXCEPT !.log = << >>]]
    ELSE PulseDone(PulseLoop([asteroids |-> as, tags |-> [k \in 1 .. Len(as) |-> k],
                              sparks |-> sparkSink, log |-> << >>],
                             Len(as), s, t, tape),
                   t, g.times)

\* update(): if (keys['ArrowDown']) applyGravitySpike(ship, asteroids)
SpikeOfTick(g, ship1, grav, tape) ==
    IF "ArrowDown" \in g.keys
    THEN applyGravitySpike(ship1, g.asteroids, g.sparks, grav, g.now, tape)
    ELSE [asteroids |-> g.asteroids, sparks |-> g.sparks, gravity |-> [grav EXCEPT !.log = << >>]]

\* update() with the pulse: the rest of the tick works on what the pulse left
AfterSpike(g, ship1, spike, tape) ==
    [game |-> AfterSteer([g EXCEPT !.asteroids = spike.asteroids, !.sparks = spike.sparks],
                         ship1, tape),
     gravity |-> spike.gravity]

updateSpike(g, grav, tape) ==
    AfterSpike(g, SteerShip(g.ship, g.keys),
               SpikeOfTick(g, SteerShip(g.ship, g.keys), grav, tape), tape)

---------------------------------------------------------------------------
(* Specification SpecSpike: the game with the gravity pulse, from a level in play *)

\* frames at most
MaxSpikeTicks == 4
\* key presses, key releases and stalls at most
MaxSpikeEvents == 3

\* Four asteroids round the ship, which is at rest in the middle of the field: one far to
\* the right and coming in slowly, one ten pixels from the ship, one on the ship, and a
\* small one a hundred pixels away coming in.
SpikeLevel ==
    [InitState EXCEPT
        !.asteroids = <<MkAsteroid(700, 300, 180, 1, 41), MkAsteroid(410, 300, 0, 1, 41),
                        MkAsteroid(400, 300, 90, 1, smallestFragmentRadius),
                        MkAsteroid(500, 300, 180, 1, smallestFragmentRadius)>>,
        !.gameOn = TRUE,
        !.now = PlayTime]

SpikeStates == {SpikeLevel, [SpikeLevel EXCEPT !.keys = {"ArrowDown"}]}

InitSpike ==
    /\ call = NoCall
    /\ ret = NoRet
    /\ \E g \in SpikeStates : GameIs(g)

\* the draws of Math.random() a tick with a pulse may see
TapesOfSpike(g, grav) ==
    IF "ArrowDown" \in g.keys /\ PulseReady(grav.lastTime, g.now) THEN GameTapes
    ELSE {<<0, 0>>}

SpikeBecomes(r, t) ==
    /\ GameBecomes([r.game EXCEPT !.now = t])
    /\ gravity' = r.gravity

\* gameLoop(): one frame of the version with the pulse
TickSpike ==
    /\ ticks < MaxSpikeTicks
    /\ ~paused
    /\ \E tape \in TapesOfSpike(Game, gravity) :
          SpikeBecomes(updateSpike(Game, gravity, tape), now + FrameTime)
    /\ ticks' = ticks + 1
    /\ UNCHANGED <<events, call, ret>>

\* handleKeyDown(e), e.key = 'ArrowDown'
SpikeKeyDown ==
    /\ events < MaxSpikeEvents
    /\ paused' = FALSE
    /\ keys' = keys \cup {"ArrowDown"}
    /\ events' = events + 1
    /\ UNCHANGED <<ship, asteroids, bullets, sparks, snippets, score, lastShotTime, gameOn,
                   currentLevel, now, timers, ticks, passLog, call, ret, gravity, examined>>

\* handleKeyUp(e), e.key = 'ArrowDown'
SpikeKeyUp ==
    /\ events < MaxSpikeEvents
    /\ "ArrowDown" \in keys
    /\ keys' = keys \ {"ArrowDown"}
    /\ events' = events + 1
    /\ UNCHANGED <<ship, asteroids, bullets, sparks, snippets, score, lastShotTime, gameOn,
                   paused, currentLevel, now, timers, ticks, passLog, call, ret, gravity, examined>>

\* no frame for a while: the next frame comes one ms before the cooldown of a pulse made
\* in the last frame is over, or when it is just over
SpikeStall ==
    /\ events < MaxSpikeEvents
    /\ \E d \in {gravityCooldown - FrameTime - 1, gravityCooldown - FrameTime} :
          now' = now + d
    /\ events' = events + 1
    /\ UNCHANGED <<ship, keys, asteroids, bullets, sparks, snippets, score, lastShotTime,
                   gameOn, paused, currentLevel, timers, ticks, passLog, call, ret, gravity, examined>>

NextSpike == TickSpike \/ SpikeKeyDown \/ SpikeKeyUp \/ SpikeStall

SpecSpike == InitSpike /\ [][NextSpike]_vars

\* C17: the gravity pulse is gated by a cooldown of 3 seconds of wall-clock time: any two
\* pulses that took effect are 3000 ms or more apart, a pulse takes effect only in a tick
\* with ArrowDown held, and a tick that triggers the pulse within the cooldown processes
\* no asteroid: the asteroids are moved by updateAsteroids and otherwise as they were.
PulseCooldown ==
    /\ [](\A k \in 1 .. Len(gravity.times) - 1 :
              gravity.times[k + 1] - gravity.times[k] >= gravityCooldown)
    /\ [][(ticks' = ticks + 1 /\ call.op = "none") =>
             /\ gravity'.times # gravity.times =>
                   /\ "ArrowDown" \in keys
                   /\ gravity'.times = Append(gravity.times, now)
                   /\ gravity'.lastTime = now
                   /\ now - gravity.lastTime >= gravityCooldown
             /\ ("ArrowDown" \in keys /\ now - gravity.lastTime < gravityCooldown) =>
                   /\ gravity'.log = << >>
                   /\ gravity'.times = gravity.times
                   /\ gravity'.lastTime = gravity.lastTime
                   /\ asteroids' = updateAsteroids(asteroids)
                   /\ sparks' = updateSparks(sparks)]_vars

\* two pulses have taken effect, exactly 3000 ms apart, and the frame after the second
\* triggered the pulse again, 17 ms into the cooldown, in vain
PulseCooldownWitness ==
    /\ call.op = "none"
    /\ "ArrowDown" \in keys
    /\ Len(gravity.times) = 2
    /\ gravity.times[2] - gravity.times[1] = gravityCooldown
    /\ now - gravity.lastTime = 2 * FrameTime
    /\ gravity.log = << >>
    /\ asteroids # << >>

\* C18: one gravity pulse processes every asteroid that was live when it began exactly
\* once, none skipped and none twice, whatever it removes on the way, and it processes
\* none of the fragments it creates.
PulseProcessesEachOnce ==
    [][(ticks' = ticks + 1 /\ call.op = "none" /\ gravity'.times # gravity.times) =>
          /\ Len(gravity'.log) = Len(asteroids)
          /\ \A k \in 1 .. Len(asteroids) :
                /\ gravity'.log[k].tag = Len(asteroids) + 1 - k
                /\ gravity'.log[k].asteroid = asteroids[Len(asteroids) + 1 - k]
          /\ \A k \in 1 .. Len(gravity'.log) : gravity'.log[k].tag # 0]_vars

\* a pulse on four asteroids has struck two of them, made fragments of one, and
\* processed the four, from the last down
PulseProcessesEachOnceWitness ==
    /\ call.op = "none"
    /\ Len(gravity.times) = 1
    /\ Len(gravity.log) = 4
    /\ \A k \in 1 .. 4 : gravity.log[k].tag = 5 - k
    /\ gravity.log[1].struck /\ gravity.log[3].struck
    /\ gravity.log[3].made >= 2
    /\ ~gravity.log[2].struck /\ ~gravity.log[4].struck

---------------------------------------------------------------------------
(* Further properties of fragmentAsteroid, under SpecFragment *)

\* the distance between the centres of fragment f and asteroid a, squared
CentreDistanceSq(f, a) == (f.x - a.x) * (f.x - a.x) + (f.y - a.y) * (f.y - a.y)

\* C21: every fragment returned by fragmentAsteroid has its centre within
\* max(0, parent.radius - fragment.radius) of the parent's centre and a radius of at
\* most parent.radius, so the circle of the fragment lies inside the circle of the parent.
FragmentInsideParent ==
    (call.op = "fragmentAsteroid" /\ ret.done) =>
        \A i \in 1 .. Len(ret.value) :
            LET f == ret.value[i]
                reach == Max(0, call.asteroid.radius - f.radius)
            IN  /\ CentreDistanceSq(f, call.asteroid) <= reach * reach
                /\ f.radius <= call.asteroid.radius
                /\ Sqrt(CentreDistanceSq(f, call.asteroid)) + f.radius <= call.asteroid.radius

\* a call has returned a fragment placed away from the centre of its parent, and
\* further than half the way to the rim its circle may reach
FragmentInsideParentWitness ==
    /\ call.op = "fragmentAsteroid" /\ ret.done
    /\ \E i \in 1 .. Len(ret.value) :
          LET f == ret.value[i]
          IN  /\ CentreDistanceSq(f, call.asteroid) > 0
              /\ 2 * Sqrt(CentreDistanceSq(f, call.asteroid))
                    > call.asteroid.radius - f.radius

---------------------------------------------------------------------------
(* Further properties of the game, under SpecPlay *)

\* targetRadius lies between smallestFragmentRadius and the 70 of spawnAsteroid
RadiusInRange(a) ==
    smallestFragmentRadius <= a.targetRadius /\ a.targetRadius <= maxRadius

\* spawnExplosion's weight for asteroid a is a number: normalizedMass lies in [0, 1]
\* (Math.pow of a negative base and the exponent 1.5 is NaN), and so does the weight
WeightIsNumber(a) ==
    LET num == a.targetRadius - smallestFragmentRadius
        den == maxRadius - smallestFragmentRadius
    IN  /\ 0 <= num /\ num <= den
        /\ PowMassWeight(num, den) \in 0 .. 1000

\* C22: in every reachable state of the game every live asteroid, spawned or made by any
\* chain of fragmentations, has 12 <= targetRadius <= 70, so that normalizedMass lies
\* in [0, 1] and the weight spawnExplosion blends the velocities with is never NaN.
RadiusBounds ==
    /\ \A i \in 1 .. Len(asteroids) :
          RadiusInRange(asteroids[i]) /\ WeightIsNumber(asteroids[i])
    /\ \A k \in 1 .. Len(passLog) :
          /\ RadiusInRange(passLog[k].asteroid) /\ WeightIsNumber(passLog[k].asteroid)
          /\ \A n \in 1 .. Len(passLog[k].made) : RadiusInRange(passLog[k].made[n])

\* a fragment of the asteroid of radius 70, itself of radius 43, has been hit and has
\* broken into fragments of its own, which are live
RadiusBoundsWitness ==
    /\ \E k \in 1 .. Len(passLog) :
          /\ passLog[k].asteroid.targetRadius = 43
          /\ Len(passLog[k].made) >= 2
          /\ \E n \in 1 .. Len(passLog[k].made) :
                passLog[k].made[n].targetRadius > smallestFragmentRadius
    /\ Len(asteroids) >= 3

---------------------------------------------------------------------------
(* Further properties of updateAsteroids, under SpecWrap *)

\* asteroid a but for its position
ButPosition(a) == [a EXCEPT !.x = 0, !.y = 0]

\* C23: updateAsteroids changes the x and y of an asteroid and nothing else: angle, speed,
\* radius, targetRadius, area, vertexCount and offsets are as they were, and so are the
\* membership and the size of the collection, so that area = pi * targetRadius^2 (areas
\* are in units of pi) holds for the asteroid throughout its life.
UpdateAsteroidsFrame ==
    call.op = "updateAsteroids" =>
        /\ Len(asteroids) = 1
        /\ ButPosition(asteroids[1]) = ButPosition(call.asteroid)
        /\ asteroids[1].area = asteroids[1].targetRadius * asteroids[1].targetRadius

\* updateAsteroids has been called three times on an asteroid that it has relocated
\* from beyond one margin to the other
UpdateAsteroidsFrameWitness ==
    /\ call.op = "updateAsteroids" /\ ticks = MaxAsteroidUpdates
    /\ call.asteroid.x = width + outerMargin /\ VelX(call.asteroid) > 0
    /\ asteroids[1].x < 0
    /\ asteroids[1].x # call.asteroid.x /\ asteroids[1].y = call.asteroid.y

---------------------------------------------------------------------------
(* Further properties of updateBullets, under SpecBullets *)

\* the point lies in the field, edges included
InField(x, y) == 0 <= x /\ x <= width /\ 0 <= y /\ y <= height

\* the point lies within one field width and height of the field
WithinOneField(x, y) ==
    -width <= x /\ x <= 2 * width /\ -height <= y /\ y <= 2 * height

\* C24 (as amended): bullets wrap at the edges of the field, with no margin: a bullet
\* whose step leaves it in the field is moved by its step and no more, and after an
\* updateBullets call every bullet whose step took it no further than one field width
\* and height out of the field has 0 <= x <= width and 0 <= y <= height.
BulletsWrapAtEdge ==
    [][call.op = "updateBullets" =>
          \A i \in 1 .. Len(bullets') :
              LET x1 == bullets[i].x + bullets[i].vx
                  y1 == bullets[i].y + bullets[i].vy
              IN  /\ WithinOneField(x1, y1) => InField(bullets'[i].x, bullets'[i].y)
                  /\ InField(x1, y1) => bullets'[i].x = x1 /\ bullets'[i].y = y1
                  /\ ~WithinOneField(x1, y1) => ~InField(bullets'[i].x, bullets'[i].y)]_vars

\* a bullet fired 3 pixels from the right edge has crossed it and is 4 pixels from the
\* left edge, and a bullet fired from a ship on the right edge is in the field
BulletsWrapAtEdgeWitness ==
    /\ call.op = "updateBullets" /\ ticks = 1 /\ Len(bullets) = 1
    /\ call.bullet.vx = bulletSpeed
    /\ \/ call.bullet.x = 797 /\ bullets[1].x = 4
       \/ call.bullet.x = 820 /\ bullets[1].x = 27

\* C24 as claimed: after every updateBullets call each bullet whose step is smaller than
\* the width and the height of the field has 0 <= x <= width and 0 <= y <= height.
BulletsStayInField ==
    (call.op = "updateBullets" /\ ticks >= 1
       /\ StepOf(call.bullet) < width /\ StepOf(call.bullet) < height) =>
        \A i \in 1 .. Len(bullets) : InField(bullets[i].x, bullets[i].y)

---------------------------------------------------------------------------
(* The collision pass, bullet by bullet (SpecPlay) *)

\* s back to front
Reversed(s) == [k \in 1 .. Len(s) |-> s[Len(s) + 1 - k]]

\* C25: the collision pass, which removes bullets and asteroids in place while it goes
\* down the indices, looks at every bullet that was live when it began exactly once, the
\* last bullet first: taking out a bullet that has hit, or an asteroid that was
\* destroyed, makes it neither pass over another bullet nor look at one twice.
EachBulletExaminedOnce ==
    [][(ticks' = ticks + 1 /\ call.op = "none" /\ ~paused) =>
          /\ examined' = Reversed(BulletsNow)
          /\ \A k, l \in 1 .. Len(examined') :
                k # l => examined'[k].shotTime # examined'[l].shotTime
          /\ \A k \in 1 .. Len(passLog') :
                \E n \in 1 .. Len(examined') : examined'[n] = passLog'[k].bullet
          /\ Len(bullets') = Len(examined') - Len(passLog')]_vars

\* a pass over two bullets or more in which a bullet that was not the lowest hit an
\* asteroid and was removed, and a bullet below it was looked at after that
EachBulletExaminedOnceWitness ==
    /\ call.op = "none"
    /\ Len(examined) >= 2
    /\ Len(passLog) >= 1
    /\ passLog[1].bullet = examined[1]
    /\ passLog[1].fragments >= 2

---------------------------------------------------------------------------
(* The fragment at the centre of its parent (SpecFragment) *)

\* the velocity, in hundredths of a pixel per tick, of a fragment of asteroid a broken by
\* bullet b whose placement direction is the unit vector (ux, uy)
ScaledVelocity(ux, uy, b, a) ==
    [x |-> explosionForceScaleTenths
             * (10 * w1 * ux + 10 * w2 * a.speed * Cos(a.angle) + w3Tenths * b.vx),
     y |-> explosionForceScaleTenths
             * (10 * w1 * uy + 10 * w2 * a.speed * Sin(a.angle) + w3Tenths * b.vy)]

\* C26: a fragment placed at the very centre of its parent (placement distance 0) gets
\* the unit vector (1, 0) for its placement direction, no division by the distance being
\* made, and its angle and speed are the numbers that follow from it: finite, not NaN.
CentreFallback ==
    (call.op = "fragmentAsteroid" /\ ret.done) =>
        \A i \in 1 .. Len(ret.value) :
            LET f == ret.value[i]
                v == ScaledVelocity(1, 0, call.bullet, call.asteroid)
            IN  (f.x = call.asteroid.x /\ f.y = call.asteroid.y) =>
                    /\ f.angle = Atan2(v.y, v.x)
                    /\ f.angle \in -180 .. 180
                    /\ \E r \in RandomValues :
                          f.speed = Round(Sqrt(v.x * v.x + v.y * v.y) * (2 * RandDen + r),
                                          100 * 2 * RandDen)
                    /\ f.speed \in 0 .. 100

\* a call has returned a fragment at the centre of its parent, moving to the right as
\* its parent, the bullet and the direction (1, 0) make it
CentreFallbackWitness ==
    /\ call.op = "fragmentAsteroid" /\ ret.done
    /\ call.asteroid.angle = 0 /\ call.bullet.vx = bulletSpeed
    /\ \E i \in 1 .. Len(ret.value) :
          /\ ret.value[i].x = call.asteroid.x /\ ret.value[i].y = call.asteroid.y
          /\ ret.value[i].angle = 0
          /\ ret.value[i].speed >= 2

---------------------------------------------------------------------------
(* How the carving loop ends (SpecFragment) *)

\* C27: for every asteroid with area >= 2 * smallestFragmentArea fragmentAsteroid
\* returns two fragments or more, and the loop is never left by  if (fragArea >
\* availableArea) break : it runs until less than smallestFragmentArea is left of the
\* area, every candidate area being at most max(smallestFragmentArea, availableArea / 2),
\* which is at most availableArea.
AtLeastTwoFragments ==
    (call.op = "fragmentAsteroid" /\ ret.done
       /\ call.asteroid.area >= 2 * smallestFragmentArea) =>
        /\ Len(ret.value) >= 2
        /\ call.asteroid.area - SumAreas(ret.value) < smallestFragmentArea
        /\ \A i \in 1 .. Len(ret.value) :
              ret.value[i].area <= MaxFragArea(call.asteroid.area)

\* the asteroid of radius 17, of area 289 >= 288, has given two fragments
AtLeastTwoFragmentsWitness ==
    /\ call.op = "fragmentAsteroid" /\ ret.done
    /\ call.asteroid.targetRadius = 17
    /\ Len(ret.value) = 2

---------------------------------------------------------------------------
(* Specification SpecChain: a spawned asteroid is hit, then one of its fragments, then  *)
(* a fragment of that fragment, and so on; the field keeps what every hit leaves        *)

\* hits in a chain at most
MaxChainHits == 7

\* the radii of the spawned asteroid: the smallest and the largest, the last that is
\* terminal and the first that is not, and some between
ChainRadii == {smallestFragmentRadius, 16, 17, 24, 34, 41, 48, 55, 69, maxRadius}

ChainCalls ==
    [op : {"chain"},
     bullet : {MkBullet(400, 300, bulletSpeed, 0, 70, width, Epoch, 500)},
     asteroid : {MkAsteroid(400, 300, 0, 1, r) : r \in ChainRadii}]

InitChain ==
    /\ call \in ChainCalls
    /\ ret = NoRet
    /\ GameIs([InitState EXCEPT !.asteroids = <<call.asteroid>>])

\* the places in the field of the asteroids the chain may go on with: the fragments of
\* the last hit, or the spawned asteroid
ChainNext ==
    IF ret.done THEN (Len(asteroids) - ret.value.made + 1) .. Len(asteroids)
    ELSE 1 .. Len(asteroids)

\* the generation of each asteroid of the field (0 for the spawned one), before the hit
Generations == IF ret.done THEN ret.value.gens ELSE [i \in 1 .. Len(asteroids) |-> 0]

\* the hit of update(): fragments = fragmentAsteroid(bullet, asteroid);
\* asteroids.splice(j, 1); asteroids.push(...fragments)
HitInChain ==
    /\ call.op = "chain"
    /\ ticks < MaxChainHits
    /\ \E j \in ChainNext : \E tape \in Tapes :
          LET fragments == fragmentAsteroid(call.bullet, asteroids[j], tape)
          IN  /\ asteroids' = HitAsteroids(asteroids, j, fragments)
              /\ ret' = [done |-> TRUE,
                         value |-> [parent |-> asteroids[j],
                                    made |-> Len(fragments),
                                    gens |-> RemoveAt(Generations, j)
                                               \o [k \in 1 .. Len(fragments) |->
                                                      Generations[j] + 1]]]
    /\ ticks' = ticks + 1
    /\ UNCHANGED <<ship, keys, bullets, sparks, snippets, score, lastShotTime, gameOn,
                   paused, currentLevel, now, timers, passLog, events, call, gravity, examined>>

NextChain == HitInChain

SpecChain == InitChain /\ [][NextChain]_vars

\* an asteroid from which fragmentAsteroid returns nothing
Terminal(a) == a.area < 2 * smallestFragmentArea

\* C28: every fragment has at most half the area of its parent, so that a chain of
\* successive fragmentations that starts from a spawned asteroid (radius <= 70) comes to
\* a terminal asteroid after 5 fragmentations at most, and the total area of the live
\* asteroids never grows by a hit.
FragmentsHalve ==
    [][call.op = "chain" =>
          LET made == LastOf(asteroids', ret'.value.made)
          IN  /\ \A k \in 1 .. Len(made) :
                    /\ 2 * made[k].area <= ret'.value.parent.area
                    /\ ret'.value.gens[Len(asteroids') - Len(made) + k] <= 5
                    /\ ret'.value.gens[Len(asteroids') - Len(made) + k] = 5
                          => Terminal(made[k])
              /\ SumAreas(asteroids') <= SumAreas(asteroids)
              /\ SumAreas(made) <= ret'.value.parent.area]_vars

\* a chain of four fragmentations: the spawned asteroid of radius 70, a fragment of it,
\* a fragment of that one and a fragment of that one again have been broken up, and the
\* field holds the fragments of all four
FragmentsHalveWitness ==
    /\ call.op = "chain" /\ ret.done
    /\ call.asteroid.targetRadius = maxRadius
    /\ ticks = 4
    /\ ret.value.made >= 2
    /\ \E i \in 1 .. Len(asteroids) : ret.value.gens[i] = 4
    /\ \E i \in 1 .. Len(asteroids) : ret.value.gens[i] = 1

---------------------------------------------------------------------------
(* The books of one collision pass (SpecPlay) *)

\* the values of the hits of a log, added up
RECURSIVE SumValues(_)
SumValues(log) == IF log = << >> THEN 0 ELSE log[1].value + SumValues(Tail(log))

\* the bullets and the asteroids of the hits of a log
HitBulletsOf(log) == {log[k].bullet : k \in 1 .. Len(log)}
HitAsteroidsOf(log) == {log[k].asteroid : k \in 1 .. Len(log)}

\* the elements of s that are not in set
NotIn(s, set) == SelectSeq(s, LAMBDA e : e \notin set)

\* C29: the books of one collision pass.  As many bullets are removed as asteroids are
\* destroyed and as snippets are created; sparkCount = 10 sparks are added for every
\* asteroid destroyed; the score grows by the sum of the computeScoreForHit values of
\* the hits; the number of asteroids changes by the fragments added less the asteroids
\* destroyed; bullets and asteroids that no hit involves are left as they were.
PassBookkeeping ==
    [][(ticks' = ticks + 1 /\ call.op = "none" /\ ~paused) =>
          LET hits == Len(passLog')
              destroyed == HitAsteroidsOf(passLog')
          IN  /\ Len(bullets') = Len(BulletsNow) - hits
              /\ Len(snippets') = Len(updateSnippets(snippets)) + hits
              /\ Len(sparks') = Len(updateSparks(sparks)) + sparkCount * hits
              /\ \A k \in 1 .. hits :
                    passLog'[k].value
                       = computeScoreForHit(passLog'[k].asteroid, passLog'[k].bullet).value
              /\ score' = score + SumValues(passLog')
              /\ Len(asteroids') = Len(AsteroidsNow) + Len(MadeBy(passLog')) - hits
              /\ bullets' = NotIn(BulletsNow, HitBulletsOf(passLog'))
              /\ NotIn(asteroids', destroyed)
                    = NotIn(AsteroidsNow \o MadeBy(passLog'), destroyed)]_vars

\* a pass with a hit that made two fragments or more has left a bullet and an asteroid
\* that the hit did not involve; the score was not zero before
PassBookkeepingWitness ==
    /\ call.op = "none"
    /\ Len(passLog) = 1
    /\ passLog[1].fragments >= 2
    /\ score > 1000
    /\ bullets # << >>
    /\ \E i \in 1 .. Len(asteroids) : \A k \in 1 .. Len(passLog) :
          \A n \in 1 .. Len(passLog[k].made) : asteroids[i] # passLog[k].made[n]

---------------------------------------------------------------------------
(* Levels (SpecPlay) *)

\* C30: the level advances once for every field that is cleared.  When a tick leaves no
\* asteroid while gameOn is true, currentLevel grows by exactly 1, gameOn becomes false
\* and initAsteroids is set to run nextLevelDelay = 3000 ms later; the ticks of the wait
\* do not call nextLevel again; currentLevel changes in no other way, and so never
\* before the first asteroids have been spawned.
LevelAdvancesOnce ==
    /\ [](gameOn => asteroids # << >> /\ timers = << >>)
    /\ [](~gameOn => asteroids = << >> /\ Len(timers) = 1)
    /\ [][/\ (gameOn /\ asteroids' = << >>) =>
                /\ currentLevel' = currentLevel + 1
                /\ ~gameOn'
                /\ timers' = <<now + nextLevelDelay>>
                /\ ticks' = ticks + 1
          /\ currentLevel' # currentLevel => gameOn /\ asteroids' = << >>
          /\ ~gameOn => /\ currentLevel' = currentLevel
                        /\ timers' = timers \/ (timers' = << >> /\ gameOn')
          /\ (~gameOn /\ gameOn') => Len(asteroids') = numAsteroids]_vars

\* the wait after the first field was cleared: the level is 2, the tick that cleared the
\* field is over and another tick has run since, and initAsteroids has not run yet
LevelAdvancesOnceWitness ==
    /\ call.op = "none"
    /\ ~gameOn /\ currentLevel = 2
    /\ asteroids = << >> /\ passLog = << >>
    /\ Len(timers) = 1
    /\ now >= timers[1] - nextLevelDelay + 2 * FrameTime
    /\ score > 1000

---------------------------------------------------------------------------
(* The spawn timer (SpecPlay) *)

\* C31: at most one initAsteroids timer is pending at any time, and initAsteroids runs
\* only on an empty asteroid collection, so that right after every initAsteroids the
\* field holds exactly numAsteroids = 8 asteroids, however ticks, key events and the
\* timer callback are interleaved, the game being paused or not.
OneSpawnTimer ==
    /\ [](Len(timers) <= 1)
    /\ [][/\ Len(timers') < Len(timers) =>
                /\ asteroids = << >>
                /\ Len(asteroids') = numAsteroids
                /\ gameOn' /\ timers' = << >>
                /\ paused' = paused
          /\ Len(timers') > Len(timers) => timers = << >> /\ asteroids' = << >>]_vars

\* initAsteroids has run while the game was paused: eight asteroids, none of which
\* has moved since, and no timer pending
OneSpawnTimerWitness ==
    /\ call.op = "none"
    /\ paused /\ gameOn
    /\ timers = << >>
    /\ Len(asteroids) = numAsteroids
    /\ currentLevel = 1

---------------------------------------------------------------------------
(* Pause (SpecPlay) *)

\* the step is a handleKeyDown call: an event that takes no time and releases no key
IsKeyDown == events' = events + 1 /\ now' = now /\ keys \subseteq keys' /\ ticks' = ticks

\* C32: while the game is paused a tick changes nothing (ship, asteroids, bullets,
\* sparks, snippets, score, lastShotTime and level stay as they are, and so do gameOn,
\* the pending timer and paused itself); a keydown of Enter pauses a running game, a
\* keydown of another key leaves it running, and the next keydown of any key resumes a
\* paused game; paused changes in no other step.
PausedTickChangesNothing ==
    [][/\ (paused /\ ticks' = ticks + 1) =>
             /\ ship' = ship /\ asteroids' = asteroids /\ bullets' = bullets
             /\ sparks' = sparks /\ snippets' = snippets /\ score' = score
             /\ lastShotTime' = lastShotTime /\ currentLevel' = currentLevel
             /\ gameOn' = gameOn /\ timers' = timers /\ keys' = keys /\ paused'
       /\ (IsKeyDown /\ paused) => ~paused'
       /\ (IsKeyDown /\ ~paused /\ keys' \ keys = {"Enter"}) => paused'
       /\ (IsKeyDown /\ ~paused /\ keys' # keys /\ "Enter" \notin keys' \ keys) => ~paused'
       /\ (IsKeyDown /\ ~paused /\ paused') => "Enter" \in keys'
       /\ paused' # paused => IsKeyDown]_vars

\* Enter was pressed in a level in play with the space bar held and the cooldown over;
\* the frames since then have fired no bullet and the bullets and asteroids are there
PausedTickChangesNothingWitness ==
    /\ call.op = "none"
    /\ paused /\ gameOn
    /\ events = 1 /\ {"Enter", " "} \subseteq keys
    /\ ticks = MaxTicks
    /\ asteroids # << >> /\ bullets # << >>
    /\ now - lastShotTime > shootCooldown + 2 * FrameTime

---------------------------------------------------------------------------
(* Asteroids stay within the margins (SpecWrap) *)

WithinMargins(a) ==
    /\ -outerMargin <= a.x /\ a.x <= width + outerMargin
    /\ -outerMargin <= a.y /\ a.y <= height + outerMargin

\* C33: after every updateAsteroids call every asteroid has
\* -outerMargin <= x <= width + outerMargin and -outerMargin <= y <= height + outerMargin,
\* also the asteroid that spawnAsteroid has just put a quarter of the field beyond an edge.
AsteroidsWithinMargins ==
    (call.op = "updateAsteroids" /\ ticks >= 1) =>
        /\ Len(asteroids) = 1
        /\ \A i \in 1 .. Len(asteroids) : WithinMargins(asteroids[i])

\* an asteroid spawned at x = -width/4 and heading for the field has gone through its
\* first updateAsteroids call, which has put it on the right margin
AsteroidsWithinMarginsWitness ==
    /\ call.op = "updateAsteroids" /\ ticks = 1
    /\ call.asteroid \in FreshAsteroids
    /\ call.asteroid.x = -(width \div 4)
    /\ call.asteroid.speed * Cos(call.asteroid.angle) > 0
    /\ ~WithinMargins(call.asteroid)
    /\ asteroids[1].x = width + outerMargin

---------------------------------------------------------------------------
(* The score only grows (SpecPlay) *)

\* what the claim says of the ScoreResult res of a hit by bullet b: with both snipe
\* conditions, a label "SNIPE (base x m)" with base in [10, 100], m an integer in [2, 8]
\* and value base * m; otherwise no label (multiplier 1) and a value in [10, 100]
ScoreAsClaimed(res, b) ==
    IF SnipeTime(b) /\ SnipeDistance(b)
    THEN /\ Len(res.label) = 5
         /\ res.label[1] = "SNIPE (" /\ res.label[3] = "x" /\ res.label[5] = ")"
         /\ res.label[2] \in 10 .. 100
         /\ res.label[4] \in 2 .. 8
         /\ res.value = res.label[2] * res.label[4]
    ELSE /\ res.label = << >>
         /\ res.value \in 10 .. 100

=============================================================================
